---- MODULE Spec2Model ----
(***************************************************************************)
(* A model of the components of the glci toolkit:                          *)
(*   - ci/promote.py            publish_image (platform dispatch, cleanup),*)
(*                              _cleanup_aws                               *)
(*   - glci/credentialmanager.py CredentialManager (singleton, policy)     *)
(*   - steps.py                 task_step_script, the step builders        *)
(*   - .cicd-cli.py             the command-line entry point               *)
(* Each component has its own next-state relation and specification; the   *)
(* variables of the other components stay at their initial values.         *)
(***************************************************************************)
EXTENDS Integers, Sequences, FiniteSets, TLC

VARIABLES
    \* ---- ci/promote.py: publish_image ----
    pi_pc,              \* position inside publish_image
    release,            \* argument `release`
    cicd_cfg,           \* argument `cicd_cfg`
    publish_function,   \* local variable publish_function
    cleanup_function,   \* local variable cleanup_function
    caught,             \* the exception the bare `except:` is handling
    events,             \* log lines and routine invocations, in program order
    pi_result,          \* how publish_image ended: returned value or raised exception
    \* ---- glci/credentialmanager.py: CredentialManager ----
    instance,           \* CredentialManager._instance
    environ,            \* the two environment variables __init__ reads
    constructed,        \* how many times CredentialManager.__init__ has run
    gi_count,           \* how many times get_instance has been called
    gi_first,           \* the first get_instance call: its policy and the environment then
    gi_last,            \* the latest get_instance call: its policy
    gi_returned,        \* the identities of the objects get_instance has returned
    \* ---- steps.py: task_step_script ----
    ts_args,            \* the arguments of the latest task_step_script call
    ts_result,          \* what that call returned or raised
    ts_opened,          \* the paths that call passed to open(), in order
    \* ---- .cicd-cli.py: _fix_version ----
    fv_args,            \* the arguments of the _fix_version call and the working-tree version
    fv_result,          \* what the call returned or raised
    fv_out,             \* the warnings it printed, in order
    \* ---- .cicd-cli.py: _download_release_artifact ----
    dl_args,            \* the arguments of the _download_release_artifact call
    dl_result,          \* what the call returned or raised
    dl_events,          \* its prints, storage sessions and downloads, in order
    \* ---- .cicd-cli.py: main and the retrieve commands ----
    mn_in,              \* the invocation: program name, options, what the repository holds
    mn_exit,            \* the exit status of the process, -1 while it has not run
    mn_events,          \* prints, handler invocations, lookups and downloads, in order
    mn_lookup,          \* the release identifier handed to find_release
    \* ---- .cicd-cli.py: publish_release_set ----
    prs_pc,             \* "idle", "replicate", "loop", "returned", "raised"
    prs_in,             \* --on-absent-cfg, the publishing cfg, what find_releases yields
    release_manifests,  \* the tuple of manifests the command works on
    prs_i,              \* position of the publish-images loop in release_manifests
    prs_log,            \* log records, prints and replication calls, in order
    \* ---- steps.py: the step builders ----
    sb_heap,            \* the list objects: sb_heap[id] is the content of list id
    sb_taskstep,        \* whether tkn.model.TaskStep keeps the list it is given or a copy
    sb_calls,           \* the builder calls made: builder, env_vars argument and its content
    sb_steps,           \* the steps returned: builder, its env list, the content at return
    \* ---- .cicd-cli.py: clean_build_result_repository ----
    cl_pc,              \* "idle", "pass", "returned", "raised"
    cl_in,              \* the parsed arguments and which pass, if any, fails
    cl_k,               \* the pass to run next (1..3)
    cl_events,          \* prints and calls of the clean routines, in order
    \* ---- promote.py: _cleanup_aws ----
    ca_args,            \* the release, cicd_cfg.publish.aws.aws_cfg_names, the failing call
    ca_result,          \* how the call ended
    ca_calls,           \* the calls of unregister_images_by_name, in order
    \* ---- .cicd-cli.py: ls_manifests ----
    ls_pc,              \* "idle", "loop", "returned", "raised"
    ls_in,              \* the flavours, --version-prefix, the keys the bucket holds
    ls_i,               \* position of the loop in the flavours
    ls_out              \* the keys printed, in order

pi_vars == <<pi_pc, release, cicd_cfg, publish_function, cleanup_function,
             caught, events, pi_result>>
cm_vars == <<instance, environ, constructed, gi_count, gi_first, gi_last, gi_returned>>

ts_vars == <<ts_args, ts_result, ts_opened>>

fv_vars == <<fv_args, fv_result, fv_out>>
dl_vars == <<dl_args, dl_result, dl_events>>
mn_vars == <<mn_in, mn_exit, mn_events, mn_lookup>>
prs_vars == <<prs_pc, prs_in, release_manifests, prs_i, prs_log>>
sb_vars == <<sb_heap, sb_taskstep, sb_calls, sb_steps>>
cl_vars == <<cl_pc, cl_in, cl_k, cl_events>>
ca_vars == <<ca_args, ca_result, ca_calls>>
ls_vars == <<ls_pc, ls_in, ls_i, ls_out>>

vars == <<pi_vars, cm_vars, ts_vars, fv_vars, dl_vars, mn_vars, prs_vars, sb_vars, cl_vars,
          ca_vars, ls_vars>>

\* what each component leaves alone
pi_others == <<cm_vars, ts_vars, fv_vars, dl_vars, mn_vars, prs_vars, sb_vars, cl_vars,
              ca_vars, ls_vars>>
cm_others == <<pi_vars, ts_vars, fv_vars, dl_vars, mn_vars, prs_vars, sb_vars, cl_vars,
              ca_vars, ls_vars>>
ts_others == <<pi_vars, cm_vars, fv_vars, dl_vars, mn_vars, prs_vars, sb_vars, cl_vars,
              ca_vars, ls_vars>>
fv_others == <<pi_vars, cm_vars, ts_vars, dl_vars, mn_vars, prs_vars, sb_vars, cl_vars,
              ca_vars, ls_vars>>
dl_others == <<pi_vars, cm_vars, ts_vars, fv_vars, mn_vars, prs_vars, sb_vars, cl_vars,
              ca_vars, ls_vars>>
mn_others == <<pi_vars, cm_vars, ts_vars, fv_vars, dl_vars, prs_vars, sb_vars, cl_vars,
              ca_vars, ls_vars>>
prs_others == <<pi_vars, cm_vars, ts_vars, fv_vars, dl_vars, mn_vars, sb_vars, cl_vars,
              ca_vars, ls_vars>>
sb_others == <<pi_vars, cm_vars, ts_vars, fv_vars, dl_vars, mn_vars, prs_vars, cl_vars,
              ca_vars, ls_vars>>
cl_others == <<pi_vars, cm_vars, ts_vars, fv_vars, dl_vars, mn_vars, prs_vars, sb_vars,
              ca_vars, ls_vars>>
ca_others == <<pi_vars, cm_vars, ts_vars, fv_vars, dl_vars, mn_vars, prs_vars, sb_vars,
              cl_vars, ls_vars>>
ls_others == <<pi_vars, cm_vars, ts_vars, fv_vars, dl_vars, mn_vars, prs_vars, sb_vars,
              cl_vars, ca_vars>>

\* Python's None
None == "None"

\* Python truthiness of an Optional[str]
Truthy(s) == s # None /\ s # ""

-----------------------------------------------------------------------------
(***************************************************************************)
(* ci/promote.py : publish_image                                           *)
(***************************************************************************)

\* release.platform values fed to publish_image: the six the dispatch knows,
\* and two it does not
Platforms == {"ali", "aws", "gcp", "azure", "openstack", "oci", "unknownland", ""}

Releases == [platform : Platforms, published_image_metadata : {None}]

\* cicd_cfg.publish.azure.shared_gallery_cfg_name: unset, empty or a name
CicdCfgs == [shared_gallery_cfg_name : {None, "", "gallery"}]

\* exceptions a provider routine can raise; raised_by tells the objects apart
ExcTypes == {"RuntimeError", "KeyboardInterrupt"}
Exceptions == [type : ExcTypes, raised_by : {"publish", "cleanup"}]

\* placeholders for "no release", "no configuration" and "no exception"
NoRelease == [platform |-> None, published_image_metadata |-> None]
NoCfg == [shared_gallery_cfg_name |-> None]
NoExc == [type |-> None, raised_by |-> None]

NoResult == [kind |-> "none", value |-> NoRelease, exc |-> NoExc]
Returned(r) == [kind |-> "return", value |-> r, exc |-> NoExc]
Raised(e) == [kind |-> "raise", value |-> NoRelease, exc |-> e]

Log(level, msg) == [ev |-> "log", level |-> level, what |-> msg, args |-> <<>>]
Invoke(fn, r, c) == [ev |-> "call", level |-> None, what |-> fn, args |-> <<r, c>>]

\* a dispatch whose final else branch falls through to a publish routine
PublishFunctionFor_ElsePublishes(platform, cfg) ==
    CASE platform = "ali" -> "_publish_alicloud_image"
      [] platform = "aws" -> "_publish_aws_image"
      [] platform = "gcp" -> "_publish_gcp_image"
      [] platform = "azure" ->
            IF Truthy(cfg.shared_gallery_cfg_name)
            THEN "_publish_azure_shared_image_gallery"
            ELSE "_publish_azure_image"
      [] platform = "openstack" -> "_publish_openstack_image"
      [] OTHER -> "_publish_oci_image"

\* a dispatch that tests the gallery name against None only, not for emptiness
PublishFunctionFor_IsNotNone(platform, cfg) ==
    CASE platform = "ali" -> "_publish_alicloud_image"
      [] platform = "aws" -> "_publish_aws_image"
      [] platform = "gcp" -> "_publish_gcp_image"
      [] platform = "azure" ->
            IF cfg.shared_gallery_cfg_name # None
            THEN "_publish_azure_shared_image_gallery"
            ELSE "_publish_azure_image"
      [] platform = "openstack" -> "_publish_openstack_image"
      [] platform = "oci" -> "_publish_oci_image"
      [] OTHER -> None

\* the if/elif chain of publish_image: the publish routine chosen for a
\* platform, None for the final else branch
PublishFunctionFor(platform, cfg) ==
    CASE platform = "ali" -> "_publish_alicloud_image"
      [] platform = "aws" -> "_publish_aws_image"
      [] platform = "gcp" -> "_publish_gcp_image"
      [] platform = "azure" ->
            IF Truthy(cfg.shared_gallery_cfg_name)
            THEN "_publish_azure_shared_image_gallery"
            ELSE "_publish_azure_image"
      [] platform = "openstack" -> "_publish_openstack_image"
      [] platform = "oci" -> "_publish_oci_image"
      [] OTHER -> None

\* a chain whose aws branch registers no cleanup routine
CleanupFunctionFor_AwsNone(platform) ==
    CASE platform = "ali" -> "_clean_alicloud_image"
      [] platform = "openstack" -> "_cleanup_openstack_image"
      [] OTHER -> None

\* the cleanup routine the same chain pairs with the platform
CleanupFunctionFor(platform) ==
    CASE platform = "ali" -> "_clean_alicloud_image"
      [] platform = "aws" -> "_cleanup_aws"
      [] platform = "openstack" -> "_cleanup_openstack_image"
      [] OTHER -> None

\* publish_image(release, cicd_cfg) is entered: line 60
PublishImageCall(r, c) ==
    /\ UNCHANGED pi_others
    /\ pi_pc \in {"idle", "returned", "raised"}
    /\ pi_pc' = "dispatch"
    /\ release' = r
    /\ cicd_cfg' = c
    /\ publish_function' = None
    /\ cleanup_function' = None
    /\ caught' = NoExc
    /\ events' = <<Log("info", "running release")>>
    /\ pi_result' = NoResult

\* lines 62-85: select the routines, or warn and return the release
Dispatch ==
    /\ UNCHANGED pi_others
    /\ pi_pc = "dispatch"
    /\ LET pf == PublishFunctionFor(release.platform, cicd_cfg)
       IN IF pf = None
          THEN /\ events' = Append(events, Log("warning", "do not know how to publish"))
               /\ pi_result' = Returned(release)
               /\ pi_pc' = "returned"
               /\ UNCHANGED <<publish_function, cleanup_function>>
          ELSE /\ publish_function' = pf
               /\ cleanup_function' = CleanupFunctionFor(release.platform)
               /\ pi_pc' = "try"
               /\ UNCHANGED <<events, pi_result>>
    /\ UNCHANGED <<release, cicd_cfg, caught>>

\* lines 87-88: return publish_function(release, cicd_cfg); the routine
\* returns the release with its published metadata attached
PublishReturns ==
    /\ UNCHANGED pi_others
    /\ pi_pc = "try"
    /\ events' = Append(events, Invoke(publish_function, release, cicd_cfg))
    /\ pi_result' = Returned([release EXCEPT !.published_image_metadata = "metadata"])
    /\ pi_pc' = "returned"
    /\ UNCHANGED <<release, cicd_cfg, publish_function, cleanup_function, caught>>

\* lines 87-89: the routine raises and the bare except catches whatever it is
PublishRaises(e) ==
    /\ UNCHANGED pi_others
    /\ pi_pc = "try"
    /\ e.raised_by = "publish"
    /\ events' = Append(events, Invoke(publish_function, release, cicd_cfg))
    /\ caught' = e
    /\ pi_pc' = "except"
    /\ UNCHANGED <<release, cicd_cfg, publish_function, cleanup_function, pi_result>>

\* lines 90-95: print the trace, then enter the cleanup routine or warn
HandleException ==
    /\ UNCHANGED pi_others
    /\ pi_pc = "except"
    /\ IF cleanup_function # None
       THEN /\ events' = events \o <<Log("trace", "print_exc"),
                                     Invoke(cleanup_function, release, cicd_cfg)>>
            /\ pi_pc' = "cleanup"
       ELSE /\ events' = events \o <<Log("trace", "print_exc"),
                                     Log("warning", "do not know how to cleanup")>>
            /\ pi_pc' = "reraise"
    /\ UNCHANGED <<release, cicd_cfg, publish_function, cleanup_function, caught,
                   pi_result>>

\* line 93: the cleanup routine returns
CleanupReturns ==
    /\ UNCHANGED pi_others
    /\ pi_pc = "cleanup"
    /\ pi_pc' = "reraise"
    /\ UNCHANGED <<release, cicd_cfg, publish_function, cleanup_function, caught,
                   events, pi_result>>

\* line 93: the cleanup routine raises inside the except block; nothing
\* catches it, so it leaves publish_image in place of the caught exception
CleanupRaises(e) ==
    /\ UNCHANGED pi_others
    /\ pi_pc = "cleanup"
    /\ e.raised_by = "cleanup"
    /\ pi_result' = Raised(e)
    /\ pi_pc' = "raised"
    /\ UNCHANGED <<release, cicd_cfg, publish_function, cleanup_function, caught,
                   events>>

\* line 96: raise
Reraise ==
    /\ UNCHANGED pi_others
    /\ pi_pc = "reraise"
    /\ pi_result' = Raised(caught)
    /\ pi_pc' = "raised"
    /\ UNCHANGED <<release, cicd_cfg, publish_function, cleanup_function, caught,
                   events>>

PublishInit ==
    /\ pi_pc = "idle"
    /\ release = NoRelease
    /\ cicd_cfg = NoCfg
    /\ publish_function = None
    /\ cleanup_function = None
    /\ caught = NoExc
    /\ events = <<>>
    /\ pi_result = NoResult

PublishNext ==
    \/ \E r \in Releases, c \in CicdCfgs : PublishImageCall(r, c)
    \/ Dispatch
    \/ PublishReturns
    \/ \E e \in Exceptions : PublishRaises(e)
    \/ HandleException
    \/ CleanupReturns
    \/ \E e \in Exceptions : CleanupRaises(e)
    \/ Reraise

-----------------------------------------------------------------------------
(***************************************************************************)
(* glci/credentialmanager.py : CredentialManager                           *)
(***************************************************************************)

\* the values of enum CCconfigPrecedence
ALWAYS == "always"
PROBE == "probe"
NEVER == "never"

\* what a caller can pass as use_cc_config: a member of the enum (as the
\* signature and the default say) or the member's string value (as the
\* --use-cc-config option of add_credential_parsing_args yields)
Policies == [kind : {"member", "str"}, value : {ALWAYS, PROBE, NEVER}]
Member(v) == [kind |-> "member", value |-> v]

\* os.getenv of a variable: None when unset, else its value
EnvValues == {None, "", "value"}
Environments == [SECRETS_SERVER_ENDPOINT : EnvValues,
                 SECRETS_SERVER_CONCOURSE_CFG_NAME : EnvValues]

\* CCconfigPrecedence.equals: self.value == str. A str compares equal to a
\* str of the same text and to nothing else; an enum member is not a str
Equals(self_value, arg) == arg.kind = "str" /\ arg.value = self_value

\* __init__: the value self.use_cc_config_server ends with
UseCcConfigServer(use_cc_config, env) ==
    LET cc_config_server_available ==
            Truthy(env.SECRETS_SERVER_ENDPOINT)
            /\ Truthy(env.SECRETS_SERVER_CONCOURSE_CFG_NAME)
    IN  \/ Equals(ALWAYS, use_cc_config)
        \/ (Equals(PROBE, use_cc_config) /\ cc_config_server_available)

NoInstance == [id |-> 0, use_cc_config_server |-> FALSE]
NoCall == [policy |-> [kind |-> None, value |-> None],
           env |-> [SECRETS_SERVER_ENDPOINT |-> None,
                    SECRETS_SERVER_CONCOURSE_CFG_NAME |-> None]]

\* bound on the number of get_instance calls in one process
MaxGetInstance == 3

\* a get_instance without the `_instance == None` test
GetInstance_AlwaysConstructs(use_cc_config) ==
    /\ gi_count < MaxGetInstance
    /\ instance' = [id |-> constructed + 1,
                    use_cc_config_server |-> UseCcConfigServer(use_cc_config, environ)]
    /\ constructed' = constructed + 1
    /\ gi_count' = gi_count + 1
    /\ gi_first' = IF gi_count = 0
                   THEN [policy |-> use_cc_config, env |-> environ]
                   ELSE gi_first
    /\ gi_last' = use_cc_config
    /\ gi_returned' = gi_returned \cup {instance'.id}
    /\ UNCHANGED environ
    /\ UNCHANGED cm_others

\* CredentialManager.get_instance(use_cc_config)
GetInstance(use_cc_config) ==
    /\ gi_count < MaxGetInstance
    /\ IF instance = NoInstance
       THEN /\ instance' = [id |-> constructed + 1,
                            use_cc_config_server |->
                                UseCcConfigServer(use_cc_config, environ)]
            /\ constructed' = constructed + 1
       ELSE UNCHANGED <<instance, constructed>>
    /\ gi_count' = gi_count + 1
    /\ gi_first' = IF gi_count = 0
                   THEN [policy |-> use_cc_config, env |-> environ]
                   ELSE gi_first
    /\ gi_last' = use_cc_config
    /\ gi_returned' = gi_returned \cup {instance'.id}
    /\ UNCHANGED environ
    /\ UNCHANGED cm_others

\* the process environment changes between calls
SetEnv(env) ==
    /\ env # environ
    /\ environ' = env
    /\ UNCHANGED <<instance, constructed, gi_count, gi_first, gi_last, gi_returned>>
    /\ UNCHANGED cm_others

CredInit ==
    /\ instance = NoInstance
    /\ environ = NoCall.env
    /\ constructed = 0
    /\ gi_count = 0
    /\ gi_first = NoCall
    /\ gi_last = NoCall.policy
    /\ gi_returned = {}

CredNext ==
    \/ \E p \in Policies : GetInstance(p)
    \/ \E env \in Environments : SetEnv(env)

-----------------------------------------------------------------------------
(***************************************************************************)
(* steps.py : task_step_script                                             *)
(*                                                                         *)
(* A text is a sequence of atoms.  The characters of a parameter name are  *)
(* atoms of their own (so that replace('-', '_') acts on them); every      *)
(* fixed fragment of the source's string literals is one atom, and "\n"    *)
(* is the newline.  The fragments share no characters with the names, so   *)
(* two texts are equal exactly when their atom sequences are.              *)
(***************************************************************************)

\* bounds on the lengths of the params and results lists
MaxParams == 2
MaxResults == 2

SeqsUpTo(S, n) == UNION {[1..k -> S] : k \in 0..n}

\* an Optional value: None, or a text / list
NoneValue == [is_none |-> TRUE, val |-> <<>>]
Some(v) == [is_none |-> FALSE, val |-> v]
\* Python truth value of an Optional str or list: neither None nor empty
IsTrue(o) == ~o.is_none /\ o.val # <<>>
\* how an f-string renders an Optional str
Str(o) == IF o.is_none THEN <<"None">> ELSE o.val

\* NamedParam.name of the parameters and results handed in
Names == {<<"b", "a", "z">>, <<"a", "-", "b", "-", "c">>}

\* the file system seen by open(path): a script, an empty file, and a path
\* that does not exist
ScriptPath == <<"steps/clone_repo_step.py">>
EmptyPath == <<"steps/empty.py">>
MissingPath == <<"steps/missing.py">>
FileExists(path) == path \in {ScriptPath, EmptyPath}
FileContent(path) ==
    IF path = ScriptPath
    THEN <<"import os", "\n", "def clone_and_copy(**kw): pass">>
    ELSE <<>>

ScriptTypes == {"PYTHON3", "BOURNE_SHELL"}

TsArgs ==
    [script_type : ScriptTypes,
     callable : {NoneValue, Some(<<>>), Some(<<"clone_and_copy">>)},
     params : SeqsUpTo(Names, MaxParams),
     results : {NoneValue} \cup {Some(r) : r \in SeqsUpTo(Names, MaxResults)},
     repo_path_param : {NoneValue} \cup {Some(n) : n \in Names},
     path : {NoneValue, Some(<<>>), Some(ScriptPath), Some(EmptyPath), Some(MissingPath)},
     inline_script : {NoneValue, Some(<<>>), Some(<<"echo hello">>)}]

\* str.replace('-', '_')
ReplaceHyphens(name) ==
    [i \in DOMAIN name |-> IF name[i] = "-" THEN "_" ELSE name[i]]

\* text.split(sep): the pieces of a text between occurrences of the atom sep
RECURSIVE Split(_, _)
Split(text, sep) ==
    LET at == {i \in DOMAIN text : text[i] = sep}
    IN  IF at = {} THEN <<text>>
        ELSE LET i == CHOOSE k \in at : \A m \in at : k <= m
             IN  <<SubSeq(text, 1, i - 1)>> \o Split(SubSeq(text, i + 1, Len(text)), sep)

\* sep.join(texts)
RECURSIVE Join(_, _)
Join(sep, texts) ==
    IF texts = <<>> THEN <<>>
    ELSE IF Len(texts) = 1 THEN texts[1]
    ELSE texts[1] \o sep \o Join(sep, Tail(texts))

\* extend_python_path_snippet(param_name); sd_name is the base name of the
\* directory steps.py lives in
extend_python_path_snippet(param_name) ==
    <<"sys.path.insert(1,os.path.abspath(os.path.join(", "\"", "$(params.">>
    \o param_name \o <<")", "\"", ",", "\"", "{sd_name}", "\"", ")))">>

\* line 45: a guard that is never true
PathAndInline_Never(path, inline_script) == FALSE

\* line 45: path and inline_script
PathAndInline(path, inline_script) == IsTrue(path) /\ IsTrue(inline_script)

\* lines 55 and 71
Shebang(script_type) ==
    IF script_type = "PYTHON3"
    THEN <<"#!/usr/bin/env python3">>
    ELSE <<"#!/usr/bin/env bash">>

\* lines 56-59 and 72
Preamble(script_type, repo_path_param) ==
    IF script_type = "PYTHON3" /\ ~repo_path_param.is_none
    THEN <<"import sys,os;">> \o extend_python_path_snippet(repo_path_param.val)
    ELSE <<>>

\* lines 62 and 66: one keyword argument of the embedded-interpreter call
PyParam(name) ==
    ReplaceHyphens(name) \o <<"=", "'", "$(params.">> \o name \o <<")", "'">>
PyResult(name) ==
    ReplaceHyphens(name) \o <<"=", "'", "$(results.">> \o name \o <<".path)", "'">>

\* lines 73 and 75: one positional argument of the shell call
ShParam(name) == <<"\"", "$(params.">> \o name \o <<")", "\"">>
ShResult(name) == <<"\"", "$(results.">> \o name \o <<".path)", "\"">>

\* lines 61-68: args of the embedded-interpreter kind
Python3Args(params, results) ==
    LET args == Join(<<",">>, [i \in DOMAIN params |-> PyParam(params[i])])
    IN  IF IsTrue(results)
        THEN args \o <<",">>
                  \o Join(<<",">>, [i \in DOMAIN results.val |-> PyResult(results.val[i])])
        ELSE args

\* lines 73-75: args of the shell kind; a non-empty result list replaces
\* the value built from the parameters
ShellArgs(params, results) ==
    LET args == Join(<<" ">>, [i \in DOMAIN params |-> ShParam(params[i])])
    IN  IF IsTrue(results)
        THEN <<" ">> \o Join(<<" ">>, [i \in DOMAIN results.val |-> ShResult(results.val[i])])
        ELSE args

\* lines 69 and 76: callable_str
CallableStr(a) ==
    IF a.script_type = "PYTHON3"
    THEN Str(a.callable) \o <<"(">> \o Python3Args(a.params, a.results) \o <<")">>
    ELSE Str(a.callable) \o <<" ">> \o ShellArgs(a.params, a.results)

\* lines 78-90: the text returned once `script` is bound
Rendered(a, script) ==
    IF IsTrue(a.callable)
    THEN Join(<<"\n">>, <<Shebang(a.script_type),
                          Preamble(a.script_type, a.repo_path_param),
                          script,
                          CallableStr(a)>>)
    ELSE Join(<<"\n">>, <<Shebang(a.script_type),
                          Preamble(a.script_type, a.repo_path_param),
                          script>>)

TsNone == [kind |-> "none", text |-> <<>>, exc |-> None]
TsReturn(text) == [kind |-> "return", text |-> text, exc |-> None]
TsRaise(exc) == [kind |-> "raise", text |-> <<>>, exc |-> exc]

\* task_step_script(**a): its outcome and the paths it opened
TaskStepScript(a) ==
    IF PathAndInline(a.path, a.inline_script)
    THEN [result |-> TsRaise("ValueError"), opened |-> <<>>]
    ELSE IF IsTrue(a.path)
    THEN IF FileExists(a.path.val)
         THEN [result |-> TsReturn(Rendered(a, FileContent(a.path.val))),
               opened |-> <<a.path.val>>]
         ELSE [result |-> TsRaise("FileNotFoundError"), opened |-> <<a.path.val>>]
    ELSE IF IsTrue(a.inline_script)
    THEN [result |-> TsReturn(Rendered(a, a.inline_script.val)), opened |-> <<>>]
    \* `script` was never assigned: the join at lines 79-90 cannot read it
    ELSE [result |-> TsRaise("UnboundLocalError"), opened |-> <<>>]

\* one call of task_step_script; the function keeps nothing between calls,
\* so a behaviour is a single call
TaskStepScriptCall ==
    /\ ts_result = TsNone
    /\ \E a \in TsArgs :
          /\ ts_args' = a
          /\ ts_result' = TaskStepScript(a).result
          /\ ts_opened' = TaskStepScript(a).opened
    /\ UNCHANGED ts_others

NoArgs ==
    [script_type |-> None, callable |-> NoneValue, params |-> <<>>,
     results |-> NoneValue, repo_path_param |-> NoneValue, path |-> NoneValue,
     inline_script |-> NoneValue]

ScriptInit ==
    /\ ts_args = NoArgs
    /\ ts_result = TsNone
    /\ ts_opened = <<>>

ScriptNext == TaskStepScriptCall

-----------------------------------------------------------------------------
(***************************************************************************)
(* .cicd-cli.py : _fix_version                                             *)
(*                                                                         *)
(* A version string is a sequence of one-character atoms.  "v" stands for  *)
(* any character that is neither a digit nor a dot.                        *)
(***************************************************************************)

\* bound on the length of the version strings passed in
MaxVersionLen == 3

Digits == {"0", "1"}
VersionChars == Digits \cup {".", "v"}
Versions == SeqsUpTo(VersionChars, MaxVersionLen)

\* glci.model._parse_version_from_workingtree(): a dotted version, a bare
\* number, or a word such as 'today'
WorkingTreeVersions == {<<"1", ".", "0">>, <<"1", "0">>, <<"v">>}

\* --gardenlinux-epoch (type=int)
Epochs == {0, 1, 10}

\* re.compile(r'^[\d\.]+$').match(parsed_version)
IsProperVersion(v) == v # <<>> /\ \A i \in DOMAIN v : v[i] \in Digits \cup {"."}

\* result.split('.')[0]
FirstSegment(v) ==
    LET dots == {i \in DOMAIN v : v[i] = "."}
    IN  IF dots = {} THEN v
        ELSE SubSeq(v, 1, (CHOOSE k \in dots : \A m \in dots : k <= m) - 1)

\* int(s) succeeds on a non-empty run of digits and raises ValueError otherwise
IntParses(s) == s # <<>> /\ \A i \in DOMAIN s : s[i] \in Digits

DigitValue(c) == IF c = "1" THEN 1 ELSE 0

\* int(s) for a run of digits
RECURSIVE ParseInt(_)
ParseInt(s) ==
    IF s = <<>> THEN 0
    ELSE 10 * ParseInt(SubSeq(s, 1, Len(s) - 1)) + DigitValue(s[Len(s)])

\* str(n) for n >= 0, as f'{parsed_epoch}' renders it
RECURSIVE IntToStr(_)
IntToStr(n) ==
    LET d == IF n % 10 = 1 THEN "1" ELSE IF n % 10 = 0 THEN "0" ELSE "?"
    IN  IF n < 10 THEN <<d>> ELSE IntToStr(n \div 10) \o <<d>>

FvNone == [kind |-> "none", value |-> <<>>, exc |-> None]
FvReturn(v) == [kind |-> "return", value |-> v, exc |-> None]
FvRaise(e) == [kind |-> "raise", value |-> <<>>, exc |-> e]

\* lines 134-145: the resolved version
ResolvedVersion(parsed_version, parsed_epoch, workingtree) ==
    IF parsed_version # workingtree
    THEN parsed_version
    ELSE IF IsProperVersion(parsed_version)
         THEN parsed_version
         ELSE IntToStr(parsed_epoch) \o <<".", "0">>

\* _fix_version(parsed_version, parsed_epoch): its outcome and its prints
FixVersion(parsed_version, parsed_epoch, workingtree) ==
    LET result == ResolvedVersion(parsed_version, parsed_epoch, workingtree)
        semver_warning ==
            IF parsed_version # workingtree /\ ~IsProperVersion(parsed_version)
            THEN <<"is not a semver version">> ELSE <<>>
    IN  IF ~IntParses(FirstSegment(result))
        THEN [result |-> FvRaise("ValueError"), out |-> semver_warning]
        ELSE IF parsed_epoch # ParseInt(FirstSegment(result))
        THEN [result |-> FvReturn(result),
              out |-> semver_warning \o <<"does not match epoch">>]
        ELSE [result |-> FvReturn(result), out |-> semver_warning]

\* one call of _fix_version; the function keeps nothing between calls
FixVersionCall ==
    /\ fv_result = FvNone
    /\ \E v \in Versions, e \in Epochs, d \in WorkingTreeVersions :
          /\ fv_args' = [version |-> v, epoch |-> e, workingtree |-> d]
          /\ fv_result' = FixVersion(v, e, d).result
          /\ fv_out' = FixVersion(v, e, d).out
    /\ UNCHANGED fv_others

FixVersionInit ==
    /\ fv_args = [version |-> <<>>, epoch |-> 0, workingtree |-> <<>>]
    /\ fv_result = FvNone
    /\ fv_out = <<>>

FixVersionNext == FixVersionCall

-----------------------------------------------------------------------------
(***************************************************************************)
(* .cicd-cli.py : _download_release_artifact, _download_obj_to_file        *)
(***************************************************************************)

\* bound on the length of manifest.paths
MaxPaths == 2

\* an entry of manifest.paths
PathEntries == [name : {"rootfs.tar.xz", "rootfs.raw"},
                s3_key : {"objects/k1", "objects/k2"},
                s3_bucket_name : {"bucket-1", "bucket-2"}]

\* manifest.logs: None, a bare str (old format), or a glci.model.S3_ReleaseFile
NoLogs == [type |-> "NoneType", s3_key |-> None, s3_bucket_name |-> None]
StrLogs(key) == [type |-> "str", s3_key |-> key, s3_bucket_name |-> None]
S3Logs(key, bucket) == [type |-> "S3_ReleaseFile", s3_key |-> key, s3_bucket_name |-> bucket]
LogValues == {NoLogs, StrLogs(""), StrLogs("objects/log.zip"),
              S3Logs("objects/log-1", "bucket-1"), S3Logs("objects/log-2", "bucket-2")}

\* the manifests handed to _download_release_artifact
DlManifests == [paths : SeqsUpTo(PathEntries, MaxPaths), logs : LogValues]

\* the artifact names requested: the two log names, a name manifests can
\* hold, and one they never hold
DlNames == {"log", "logs", "rootfs.tar.xz", "kernel"}

\* cicd_cfg.build.s3_bucket_name
DefaultBucket == "build-bucket"

DlPrint(msg) == [ev |-> "print", what |-> msg, bucket |-> None, key |-> None, file |-> None]
DlSession == [ev |-> "session", what |-> "ccc.aws.session", bucket |-> None, key |-> None,
              file |-> None]
DlDownload(bucket, key, file) ==
    [ev |-> "download", what |-> "download_file", bucket |-> bucket, key |-> key,
     file |-> file]

DlNone == [kind |-> "none", value |-> 0, exc |-> None]
DlReturn(code) == [kind |-> "return", value |-> code, exc |-> None]
DlRaise(e) == [kind |-> "raise", value |-> 0, exc |-> e]

\* `not log_obj`: None and the empty str are false, an S3_ReleaseFile is true
NoLogObj(log_obj) ==
    log_obj.type = "NoneType" \/ (log_obj.type = "str" /\ log_obj.s3_key = "")

\* a lookup that takes the build's default bucket for every log reference
LogLocation_DefaultBucket(log_obj) ==
    [s3_bucket |-> DefaultBucket, s3_key |-> log_obj.s3_key]

\* lines 175-180: where the logs are
LogLocation(log_obj) ==
    IF log_obj.type = "S3_ReleaseFile"
    THEN [s3_bucket |-> log_obj.s3_bucket_name, s3_key |-> log_obj.s3_key]
    ELSE [s3_bucket |-> DefaultBucket, s3_key |-> log_obj.s3_key]

\* line 183: [entry for entry in manifest.paths if entry.name == name]
RECURSIVE FileObjs(_, _)
FileObjs(entries, name) ==
    IF entries = <<>> THEN <<>>
    ELSE (IF Head(entries).name = name THEN <<Head(entries)>> ELSE <<>>)
         \o FileObjs(Tail(entries), name)

\* a selection that takes the last match
SelectedFileObj_Last(file_objs) == file_objs[Len(file_objs)]

\* lines 189-190: file_objs[0]
SelectedFileObj(file_objs) == file_objs[1]

\* lines 152-161 and 192-198: print, open a session, download; download_ok says
\* whether the storage service delivers the object
DownloadObjToFile(bucket, key, outfile, download_ok) ==
    [result |-> IF download_ok THEN DlReturn(0) ELSE DlRaise("ClientError"),
     events |-> <<DlPrint("Downloading object"), DlSession,
                  DlDownload(bucket, key, outfile)>>]

\* _download_release_artifact(cicd_cfg, name, outfile, manifest)
DownloadReleaseArtifact(name, outfile, manifest, download_ok) ==
    IF name = "log" \/ name = "logs"
    THEN IF NoLogObj(manifest.logs)
         THEN [result |-> DlReturn(1),
               events |-> <<DlPrint("Error: No logs attached to release manifest")>>]
         ELSE LET loc == LogLocation(manifest.logs)
              IN  DownloadObjToFile(loc.s3_bucket, loc.s3_key, outfile, download_ok)
    ELSE LET file_objs == FileObjs(manifest.paths, name)
         IN  IF file_objs = <<>>
             THEN [result |-> DlReturn(1),
                   events |-> <<DlPrint("Error: No object in release manifest with name")>>]
             ELSE LET obj == SelectedFileObj(file_objs)
                      warning == IF Len(file_objs) > 1
                                 THEN <<DlPrint("Warning.: Found more than one file")>>
                                 ELSE <<>>
                      dl == DownloadObjToFile(obj.s3_bucket_name, obj.s3_key, outfile,
                                              download_ok)
                  IN  [result |-> dl.result, events |-> warning \o dl.events]

\* one call of _download_release_artifact
DownloadReleaseArtifactCall ==
    /\ dl_result = DlNone
    /\ \E n \in DlNames, m \in DlManifests, ok \in BOOLEAN :
          LET r == DownloadReleaseArtifact(n, "outfile", m, ok)
          IN  /\ dl_args' = [name |-> n, outfile |-> "outfile", manifest |-> m]
              /\ dl_result' = r.result
              /\ dl_events' = r.events
    /\ UNCHANGED dl_others

DownloadInit ==
    /\ dl_args = [name |-> None, outfile |-> None,
                  manifest |-> [paths |-> <<>>, logs |-> NoLogs]]
    /\ dl_result = DlNone
    /\ dl_events = <<>>

DownloadNext == DownloadReleaseArtifactCall

-----------------------------------------------------------------------------
(***************************************************************************)
(* .cicd-cli.py : main, retrieve_single_manifest, retrieve_release_set     *)
(*                                                                         *)
(* A program name is a sequence of atoms: words, "-" and "_".  An option   *)
(* value is a sequence of atoms: names, "," and " ".                       *)
(***************************************************************************)

\* bound on the number of --platform / --modifier options on a command line
MaxOptions == 2

\* the command functions of the module, under their Python names
HandlerNames ==
    {<<"clean", "_", "build", "_", "result", "_", "repository">>,
     <<"gardenlinux", "_", "epoch">>,
     <<"gardenlinux", "_", "timestamp">>,
     <<"retrieve", "_", "single", "_", "manifest">>,
     <<"retrieve", "_", "release", "_", "set">>,
     <<"replicate", "_", "blobs">>,
     <<"ls", "_", "manifests">>,
     <<"publish", "_", "release", "_", "set">>}

\* getattr(module_symbols, cmd_name, None): what kind of object the name is
\* bound to in the module, None when it is bound to nothing
ModuleSymbol(cmd_name) ==
    CASE cmd_name \in HandlerNames -> "handler"
      [] cmd_name = <<"_", "head", "_", "sha">> -> "helper"
      [] cmd_name = <<"os">> -> "module"
      [] cmd_name = <<"EnumAction">> -> "class"
      [] cmd_name = <<"logger">> -> "variable"
      [] OTHER -> None

\* os.path.basename(sys.argv[0]) of the invocations considered
ProgramNames ==
    {<<"clean", "-", "build", "-", "result", "-", "repository">>,
     <<"gardenlinux", "-", "epoch">>,
     <<"gardenlinux", "-", "timestamp">>,
     <<"retrieve", "-", "single", "-", "manifest">>,
     <<"retrieve", "_", "single", "-", "manifest">>,
     <<"retrieve", "-", "release", "-", "set">>,
     <<"replicate", "-", "blobs">>,
     <<"ls", "-", "manifests">>,
     <<"publish", "-", "release", "-", "set">>,
     <<"-", "head", "-", "sha">>,
     <<"os">>,
     <<"EnumAction">>,
     <<"logger">>,
     <<"no", "-", "such", "-", "command">>,
     <<".cicd", "-", "cli.py">>}

\* [p.name for p in glci.model.platforms()] and [c.name for c in glci.model.modifiers()]
KnownPlatforms == {"aws", "gcp"}
KnownModifiers == {"gardener", "_prod", "base"}

\* the default of --modifier, which no action normalises
DefaultModifiers ==
    [normalised_for |-> "not normalised",
     names |-> {"base", "cloud", "gardener", "server", "_nopkg", "_prod", "_readonly",
                "_slim"}]

\* glci.model.normalised_modifiers(platform, modifiers): the modifier set
\* under the rules of the platform it is given
Normalised(platform, modifiers) ==
    [normalised_for |-> platform, names |-> {modifiers[i] : i \in DOMAIN modifiers}]

\* the values given to --platform and --modifier
PlatformValues == {<<"aws">>, <<"gcp">>, <<"vmware-typo">>}
ModifierValues ==
    {<<"gardener">>,
     <<"_prod", ",", " ", "gardener">>,
     <<"gardener", ",", "gardener", " ">>,
     <<"gardener", ",", "foo">>}
Options == [opt : {"--platform"}, val : PlatformValues]
           \cup [opt : {"--modifier"}, val : ModifierValues]

\* str.strip() of an item
RECURSIVE Strip(_)
Strip(item) ==
    IF item = <<>> THEN item
    ELSE IF Head(item) = " " THEN Strip(Tail(item))
    ELSE IF item[Len(item)] = " " THEN Strip(SubSeq(item, 1, Len(item) - 1))
    ELSE item

\* lines 272-275: the stripped items of values.split(',')
StrippedItems(values) ==
    LET items == Split(values, ",") IN [i \in DOMAIN items |-> Strip(items[i])]
IsKnownModifier(item) == \E m \in KnownModifiers : item = <<m>>

\* parser.parse_args() on the --platform and --modifier options, in
\* command-line order.  none_platform says what normalised_modifiers does
\* when it is handed platform=None
RECURSIVE ParseOptions(_, _, _)
ParseOptions(argv, namespace, none_platform) ==
    IF argv = <<>>
    THEN IF namespace.platform = None
         THEN [status |-> "usage error", namespace |-> namespace]
         ELSE [status |-> "ok", namespace |-> namespace]
    ELSE LET o == Head(argv)
         IN  IF o.opt = "--platform"
             THEN IF \E p \in KnownPlatforms : o.val = <<p>>
                  THEN ParseOptions(Tail(argv), [namespace EXCEPT !.platform = o.val[1]],
                                    none_platform)
                  ELSE [status |-> "usage error", namespace |-> namespace]
             ELSE LET items == StrippedItems(o.val)
                      \* line 278: namespace.platform as it is when the action runs
                      platform == namespace.platform
                  IN  IF \E i \in DOMAIN items : ~IsKnownModifier(items[i])
                      THEN [status |-> "ValueError", namespace |-> namespace]
                      ELSE IF platform = None /\ none_platform = "raises"
                      THEN [status |-> "normalised_modifiers raises",
                            namespace |-> namespace]
                      ELSE ParseOptions(
                             Tail(argv),
                             [namespace EXCEPT !.modifiers =
                                Normalised(platform, [i \in DOMAIN items |-> items[i][1]])],
                             none_platform)

MnEvent(ev, what) == [ev |-> ev, what |-> what]
NoLookup == [platform |-> None, modifiers |-> DefaultModifiers, version |-> <<>>]
\* how a call ends: sys.exit(code), an uncaught exception (status 1), or a
\* return with a value (None counts as 0)
MnExit(code) == [how |-> "exit", value |-> code]
MnReturn(value) == [how |-> "return", value |-> value]
MnOutcome(end, evs, lookup) == [end |-> end, events |-> evs, lookup |-> lookup]

\* retrieve_single_manifest()
RetrieveSingleManifest(in) ==
    LET parsed == ParseOptions(in.argv, [platform |-> None, modifiers |-> DefaultModifiers],
                               in.none_platform)
        fixed == FixVersion(in.version, 1, <<"1", ".", "0">>)
        ident == [platform |-> parsed.namespace.platform,
                  modifiers |-> parsed.namespace.modifiers,
                  version |-> fixed.result.value]
        outfile_name == IF in.download \in {"log", "logs"} THEN "build_log.zip"
                        ELSE in.download
        dl == DownloadReleaseArtifact(in.download, outfile_name, in.manifest,
                                      in.download_ok)
        dl_events_ == [i \in DOMAIN dl.events |->
                         MnEvent(dl.events[i].ev, dl.events[i].what)]
    IN  CASE parsed.status = "usage error" ->
               MnOutcome(MnExit(2), <<MnEvent("print", "usage")>>, NoLookup)
          [] parsed.status \in {"ValueError", "normalised_modifiers raises"} ->
               MnOutcome(MnExit(1), <<MnEvent("traceback", parsed.status)>>, NoLookup)
          [] parsed.status = "ok" /\ fixed.result.kind = "raise" ->
               MnOutcome(MnExit(1), <<MnEvent("traceback", "ValueError")>>, NoLookup)
          [] parsed.status = "ok" /\ fixed.result.kind = "return" /\ ~in.found ->
               MnOutcome(MnExit(1), <<MnEvent("lookup", "find_release"),
                              MnEvent("print", "ERROR: no such release found")>>, ident)
          [] parsed.status = "ok" /\ fixed.result.kind = "return" /\ in.found
             /\ in.download # None ->
               MnOutcome(IF dl.result.kind = "raise" THEN MnExit(1)
                         ELSE MnReturn(dl.result.value),
                         <<MnEvent("lookup", "find_release")>> \o dl_events_, ident)
          [] OTHER ->
               MnOutcome(MnReturn(0), <<MnEvent("lookup", "find_release"),
                                       MnEvent("yaml.dump", "release")>>, ident)

\* retrieve_release_set()
RetrieveReleaseSet(in) ==
    LET fixed == FixVersion(in.version, 1, <<"1", ".", "0">>)
    IN  IF fixed.result.kind = "raise"
        THEN MnOutcome(MnExit(1), <<MnEvent("traceback", "ValueError")>>, NoLookup)
        ELSE IF ~in.found
        THEN MnOutcome(MnExit(1), <<MnEvent("lookup", "find_release_set"),
                            MnEvent("print", "Did not find specified release-set")>>,
                       NoLookup)
        ELSE MnOutcome(MnReturn(0), <<MnEvent("lookup", "find_release_set"),
                                     MnEvent("yaml.dump", "release_set")>>, NoLookup)

\* the other command functions: they return, or an exception leaves them
OtherHandler(in) ==
    IF in.handler_ok
    THEN MnOutcome(MnReturn(0), <<>>, NoLookup)
    ELSE MnOutcome(MnExit(1), <<MnEvent("traceback", "Exception")>>, NoLookup)

\* func(): calling what the name is bound to
CallSymbol(cmd_name, in) ==
    CASE ModuleSymbol(cmd_name) = "handler" ->
            IF cmd_name = <<"retrieve", "_", "single", "_", "manifest">>
            THEN RetrieveSingleManifest(in)
            ELSE IF cmd_name = <<"retrieve", "_", "release", "_", "set">>
            THEN RetrieveReleaseSet(in)
            ELSE OtherHandler(in)
      [] ModuleSymbol(cmd_name) = "helper" -> OtherHandler(in)
      \* a module, a logger: TypeError, not callable; EnumAction(): ValueError
      [] OTHER -> MnOutcome(MnExit(1), <<MnEvent("traceback", "TypeError or ValueError")>>,
                            NoLookup)

\* line 656: func() - the value the command function returns is dropped, and
\* the interpreter ends with status 0
ExitStatusOfReturn(value) == 0

\* main()
Main(in) ==
    LET cmd_name == ReplaceHyphens(in.argv0)
    IN  IF ModuleSymbol(cmd_name) = None
        THEN [exit |-> 1, events |-> <<MnEvent("print", "ERROR: is not defined")>>,
              lookup |-> NoLookup]
        ELSE LET r == CallSymbol(cmd_name, in)
             IN  [exit |-> IF r.end.how = "return" THEN ExitStatusOfReturn(r.end.value)
                           ELSE r.end.value,
                  events |-> <<MnEvent("invoke", ModuleSymbol(cmd_name))>> \o r.events,
                  lookup |-> r.lookup]

\* the manifests find_release can come back with
MnManifests ==
    {[paths |-> <<[name |-> "rootfs.tar.xz", s3_key |-> "objects/k1",
                   s3_bucket_name |-> "bucket-1"]>>,
      logs |-> NoLogs],
     [paths |-> <<>>, logs |-> S3Logs("objects/log-1", "bucket-1")]}

MnDefaults ==
    [argv0 |-> <<>>, argv |-> <<>>, none_platform |-> "raises", version |-> <<"1", ".", "0">>,
     found |-> TRUE, manifest |-> [paths |-> <<>>, logs |-> NoLogs], download |-> None,
     download_ok |-> TRUE, handler_ok |-> TRUE]

\* the invocations considered: each command with the inputs it reads
MnInputs ==
    {[MnDefaults EXCEPT !.argv0 = n, !.argv = a, !.none_platform = np, !.version = v,
                        !.found = f, !.manifest = m, !.download = d, !.download_ok = ok] :
        n \in {<<"retrieve", "-", "single", "-", "manifest">>},
        a \in SeqsUpTo(Options, MaxOptions),
        np \in {"raises", "returns"},
        v \in {<<"1", ".", "0">>, <<"v">>},
        f \in BOOLEAN,
        m \in MnManifests,
        d \in {None, "logs", "rootfs.tar.xz"},
        ok \in BOOLEAN}
    \cup
    {[MnDefaults EXCEPT !.argv0 = <<"retrieve", "-", "release", "-", "set">>,
                        !.version = v, !.found = f] :
        v \in {<<"1", ".", "0">>, <<"v">>}, f \in BOOLEAN}
    \cup
    {[MnDefaults EXCEPT !.argv0 = n, !.handler_ok = ok] :
        n \in ProgramNames \ {<<"retrieve", "-", "single", "-", "manifest">>,
                             <<"retrieve", "-", "release", "-", "set">>},
        ok \in BOOLEAN}

\* one run of the program
RunMain ==
    /\ mn_exit = -1
    /\ \E in \in MnInputs :
          LET r == Main(in)
          IN  /\ mn_in' = in
              /\ mn_exit' = r.exit
              /\ mn_events' = r.events
              /\ mn_lookup' = r.lookup
    /\ UNCHANGED mn_others

MainInit ==
    /\ mn_in = MnDefaults
    /\ mn_exit = -1
    /\ mn_events = <<>>
    /\ mn_lookup = NoLookup

MainNext == RunMain

-----------------------------------------------------------------------------
(***************************************************************************)
(* .cicd-cli.py : publish_release_set                                      *)
(***************************************************************************)

\* bound on the number of manifests find_releases yields
MaxManifests == 2

PrsPlatforms == {"aws", "gcp"}

\* a release manifest, as far as the command reads it
PrsManifests == [platform : PrsPlatforms, published_image_metadata : BOOLEAN]

\* the command's inputs: --on-absent-cfg, the platforms the publishing cfg
\* has a target for, the manifests found, whether blob replication succeeds
PrsInputs == [on_absent_cfg : {"warn", "fail"},
              targets : SUBSET PrsPlatforms,
              found : SeqsUpTo(PrsManifests, MaxManifests),
              replicate_ok : BOOLEAN]

\* a log record of a phase logger, a print, or a call of the replication;
\* idx is the position of the manifest it is about, 0 when about none
PrsLog(phase, level, msg, idx) == [phase |-> phase, level |-> level, msg |-> msg, idx |-> idx]

\* start_phase(name) and end_phase(name)
start_phase(name) == <<PrsLog(name, "info", "Starting Phase", 0)>>
end_phase(name) == <<PrsLog(name, "info", "End of Phase", 0)>>

\* cfg.target(platform=manifest.platform, absent_ok=True)
TargetCfg(in, platform) == IF platform \in in.targets THEN platform ELSE None

\* a command that goes on to publish after a failed replication
AfterReplicate_Continues(replicate_ok) == "loop"

\* lines 607-613: replicate_image_blobs returns, or its exception ends the command
AfterReplicate(replicate_ok) == IF replicate_ok THEN "loop" ELSE "raised"

\* an absent cfg that aborts under "fail"
OnAbsentCfg_FailAborts(on_absent) ==
    CASE on_absent = "warn" -> [level |-> "warning", msg |-> "will NOT publish", then |-> "continue"]
      [] on_absent = "fail" -> [level |-> "fatal", msg |-> "aborting", then |-> "raise"]
      [] OTHER -> [level |-> None, msg |-> None, then |-> "raise"]

\* lines 624-634: what is logged for an absent target cfg, and how the
\* iteration goes on
OnAbsentCfg(on_absent) ==
    CASE on_absent = "warn" -> [level |-> "warning", msg |-> "will NOT publish", then |-> "continue"]
      [] on_absent = "fail" -> [level |-> "fatal", msg |-> "aborting", then |-> "fall through"]
      [] OTHER -> [level |-> None, msg |-> None, then |-> "raise"]

\* a loop that takes no manifest for published
AlreadyPublished_Never(manifest) == FALSE

\* line 638: if manifest.published_image_metadata
AlreadyPublished(manifest) == manifest.published_image_metadata

\* lines 619-642: the body of the publish-images loop for the manifest at idx
PublishIteration(in, manifest, idx) ==
    LET ph == "publish-images"
        name == <<PrsLog(ph, "info", "name", idx)>>
        absent == OnAbsentCfg(in.on_absent_cfg)
        rest == <<PrsLog(ph, "print", "target_cfg", idx)>> \o
                (IF AlreadyPublished(manifest)
                 THEN <<PrsLog(ph, "info", "already published -> skipping", idx)>>
                 ELSE <<PrsLog(ph, "info", "will publish image", idx)>>)
    IN  IF TargetCfg(in, manifest.platform) = None
        THEN CASE absent.then = "continue" ->
                    [log |-> name \o <<PrsLog(ph, absent.level, absent.msg, idx)>>,
                     raised |-> FALSE]
               [] absent.then = "fall through" ->
                    [log |-> name \o <<PrsLog(ph, absent.level, absent.msg, idx)>> \o rest,
                     raised |-> FALSE]
               [] OTHER ->
                    [log |-> name \o (IF absent.level = None THEN <<>>
                                      ELSE <<PrsLog(ph, absent.level, absent.msg, idx)>>),
                     raised |-> TRUE]
        ELSE [log |-> name \o rest, raised |-> FALSE]

\* lines 551-605: parse, start the sync-images phase, resolve the manifests
PrsStart ==
    /\ prs_pc = "idle"
    /\ \E in \in PrsInputs :
          /\ prs_in' = in
          /\ release_manifests' = in.found
          /\ prs_log' = start_phase("sync-images") \o
                        <<PrsLog("sync-images", "info", "found", Len(in.found))>>
    /\ prs_pc' = "replicate"
    /\ UNCHANGED <<prs_i, prs_others>>

\* lines 607-615: replicate the blobs of all manifests, end the phase, start
\* publish-images
PrsReplicate ==
    /\ prs_pc = "replicate"
    /\ prs_pc' = AfterReplicate(prs_in.replicate_ok)
    /\ prs_log' = prs_log \o
                  <<PrsLog("sync-images", "call", "replicate_image_blobs",
                           Len(release_manifests))>> \o
                  (IF prs_in.replicate_ok
                   THEN end_phase("sync-images") \o start_phase("publish-images")
                   ELSE <<>>)
    /\ prs_i' = 1
    /\ UNCHANGED <<prs_in, release_manifests, prs_others>>

\* lines 617-642: one pass of the loop body
PrsIteration ==
    /\ prs_pc = "loop"
    /\ prs_i <= Len(release_manifests)
    /\ LET r == PublishIteration(prs_in, release_manifests[prs_i], prs_i)
       IN  /\ prs_log' = prs_log \o r.log
           /\ prs_pc' = IF r.raised THEN "raised" ELSE "loop"
    /\ prs_i' = prs_i + 1
    /\ UNCHANGED <<prs_in, release_manifests, prs_others>>

\* line 617: the tuple is exhausted and the command returns
PrsReturn ==
    /\ prs_pc = "loop"
    /\ prs_i > Len(release_manifests)
    /\ prs_pc' = "returned"
    /\ UNCHANGED <<prs_in, release_manifests, prs_i, prs_log, prs_others>>

PublishSetInit ==
    /\ prs_pc = "idle"
    /\ prs_in = [on_absent_cfg |-> "warn", targets |-> {}, found |-> <<>>,
                 replicate_ok |-> TRUE]
    /\ release_manifests = <<>>
    /\ prs_i = 0
    /\ prs_log = <<>>

PublishSetNext == PrsStart \/ PrsReplicate \/ PrsIteration \/ PrsReturn

-----------------------------------------------------------------------------
(***************************************************************************)
(* steps.py : the step builders and their env_vars lists                   *)
(*                                                                         *)
(* Python lists are objects: sb_heap maps a list's identity to its content.*)
(* A default argument `env_vars=[]` is one list object per function,       *)
(* created when the function is defined.                                   *)
(***************************************************************************)

\* bound on the number of builder calls
MaxCalls == 3

\* the builders modelled: one that appends to env_vars, one that does not
Builders == {"promote_single_step", "clone_step"}

\* the identity of the list that is the default of a builder's env_vars
DefaultEnvVars(builder) == IF builder = "promote_single_step" THEN 1 ELSE 2

\* the env_vars lists a caller passes: a fresh list with this content
CallerEnvVars == {<<>>, <<"HOME">>}

\* lines 168-171: env_vars.append({'name': 'GARDENLINUX_PATH', ...}), by
\* promote_single_step only
AppendsGardenlinuxPath(builder) == builder = "promote_single_step"

\* one builder call: env_vars is the caller's fresh list when explicit, the
\* function's default list otherwise
BuilderCall(heap, taskstep, builder, explicit, content) ==
    LET heap1 == IF explicit THEN Append(heap, content) ELSE heap
        env_vars == IF explicit THEN Len(heap1) ELSE DefaultEnvVars(builder)
        heap2 == IF AppendsGardenlinuxPath(builder)
                 THEN [heap1 EXCEPT ![env_vars] = Append(@, "GARDENLINUX_PATH")]
                 ELSE heap1
        \* tkn.model.TaskStep(..., env=env_vars)
        heap3 == IF taskstep = "copy" THEN Append(heap2, heap2[env_vars]) ELSE heap2
        env == IF taskstep = "copy" THEN Len(heap3) ELSE env_vars
    IN  [heap |-> heap3,
         call |-> [builder |-> builder, explicit |-> explicit, env_vars |-> env_vars,
                   before |-> heap1[env_vars]],
         step |-> [builder |-> builder, env |-> env, at_return |-> heap3[env]]]

\* a caller calls a builder
CallBuilder ==
    /\ Len(sb_calls) < MaxCalls
    /\ \E builder \in Builders, explicit \in BOOLEAN, content \in CallerEnvVars,
          ts \in {"reference", "copy"} :
          /\ ~explicit => content = <<>>
          /\ sb_taskstep # "unknown" => ts = sb_taskstep
          /\ LET r == BuilderCall(sb_heap, ts, builder, explicit, content)
             IN  /\ sb_heap' = r.heap
                 /\ sb_calls' = Append(sb_calls, r.call)
                 /\ sb_steps' = Append(sb_steps, r.step)
          /\ sb_taskstep' = ts
    /\ UNCHANGED sb_others

\* after the module is loaded: the two default lists exist and are empty
StepsInit ==
    /\ sb_heap = <<(<<>>), (<<>>)>>
    /\ sb_taskstep = "unknown"
    /\ sb_calls = <<>>
    /\ sb_steps = <<>>

StepsNext == CallBuilder

-----------------------------------------------------------------------------
(***************************************************************************)
(* .cicd-cli.py : clean_build_result_repository                            *)
(***************************************************************************)

\* --snapshot-max-age-days (default 30), --dry-run, --cicd-cfg, and the pass
\* whose routine raises (0: none does)
CleanInputs == [snapshot_max_age_days : {0, 7, 30},
                dry_run : BOOLEAN,
                cicd_cfg : {"default", "other"},
                failing : 0..3]

ClPrint(msg) == [ev |-> "print", what |-> msg]
ClCall(routine, kwargs) == [ev |-> "call", what |-> routine, kwargs |-> kwargs]

\* a command that never asks for a dry run
CleanPass_NoDryRun(k, parsed) ==
    CASE k = 1 -> <<ClPrint("purging outdated build snapshot manifests"),
                    ClCall("clean_single_release_manifests",
                           [max_age_days |-> parsed.snapshot_max_age_days,
                            cicd_cfg |-> parsed.cicd_cfg, dry_run |-> FALSE])>>
      [] k = 2 -> <<ClPrint("purging outdated build result snapshot sets"),
                    ClCall("clean_release_manifest_sets",
                           [max_age_days |-> parsed.snapshot_max_age_days,
                            cicd_cfg |-> parsed.cicd_cfg, dry_run |-> FALSE])>>
      [] OTHER -> <<ClPrint("purging loose objects"),
                    ClCall("clean_orphaned_objects",
                           [cicd_cfg |-> parsed.cicd_cfg, dry_run |-> FALSE])>>

\* lines 86-104: the print and the call of the k-th pass
CleanPass(k, parsed) ==
    CASE k = 1 -> <<ClPrint("purging outdated build snapshot manifests"),
                    ClCall("clean_single_release_manifests",
                           [max_age_days |-> parsed.snapshot_max_age_days,
                            cicd_cfg |-> parsed.cicd_cfg, dry_run |-> parsed.dry_run])>>
      [] k = 2 -> <<ClPrint("purging outdated build result snapshot sets"),
                    ClCall("clean_release_manifest_sets",
                           [max_age_days |-> parsed.snapshot_max_age_days,
                            cicd_cfg |-> parsed.cicd_cfg, dry_run |-> parsed.dry_run])>>
      [] OTHER -> <<ClPrint("purging loose objects"),
                    ClCall("clean_orphaned_objects",
                           [cicd_cfg |-> parsed.cicd_cfg, dry_run |-> parsed.dry_run])>>

\* lines 61-84: parse the arguments, load the cicd cfg
CleanParse ==
    /\ cl_pc = "idle"
    /\ \E in \in CleanInputs : cl_in' = in
    /\ cl_pc' = "pass"
    /\ cl_k' = 1
    /\ UNCHANGED <<cl_events, cl_others>>

\* one pass: its print and its routine, which returns or raises
CleanRunPass ==
    /\ cl_pc = "pass"
    /\ cl_k <= 3
    /\ cl_events' = cl_events \o CleanPass(cl_k, cl_in)
    /\ IF cl_in.failing = cl_k
       THEN cl_pc' = "raised" /\ cl_k' = cl_k
       ELSE cl_pc' = (IF cl_k = 3 THEN "returned" ELSE "pass") /\ cl_k' = cl_k + 1
    /\ UNCHANGED <<cl_in, cl_others>>

CleanInit ==
    /\ cl_pc = "idle"
    /\ cl_in = [snapshot_max_age_days |-> 30, dry_run |-> FALSE, cicd_cfg |-> "default",
                failing |-> 0]
    /\ cl_k = 0
    /\ cl_events = <<>>

CleanNext == CleanParse \/ CleanRunPass

-----------------------------------------------------------------------------
(***************************************************************************)
(* promote.py : _cleanup_aws                                               *)
(***************************************************************************)

\* bound on the length of cicd_cfg.publish.aws.aws_cfg_names
MaxAccounts == 3

AwsCfgNames == {"account-a", "account-b"}
CaReleases == [platform : {"aws"}, version : {"27.1.0", "318.4.0"}]

\* the arguments, and the position of the unregister call that raises (0: none)
CaInputs == [release : CaReleases,
             aws_cfg_names : SeqsUpTo(AwsCfgNames, MaxAccounts),
             failing : 0..MaxAccounts]

\* glci.aws.target_image_name_for_release(release=release): a name that is a
\* function of the release
target_image_name_for_release(rel) == [image_name_of |-> rel]

\* a session factory bound to one fixed account
mk_session_Fixed(aws_cfg_name) == [func |-> "ccc.aws.session", aws_cfg |-> "account-a"]

\* line 156: functools.partial(ccc.aws.session, aws_cfg=aws_cfg_name)
mk_session(aws_cfg_name) == [func |-> "ccc.aws.session", aws_cfg |-> aws_cfg_name]

CaNone == [kind |-> "none"]
CaReturn == [kind |-> "return"]
CaRaise == [kind |-> "raise"]

\* lines 155-160: the loop over the account names, from position k on
RECURSIVE CleanupAwsLoop(_, _, _, _)
CleanupAwsLoop(names, image_name, k, failing) ==
    IF k > Len(names)
    THEN [result |-> CaReturn, calls |-> <<>>]
    ELSE LET call == [mk_session |-> mk_session(names[k]), image_name |-> image_name]
         IN  IF failing = k
             THEN [result |-> CaRaise, calls |-> <<call>>]
             ELSE LET rest == CleanupAwsLoop(names, image_name, k + 1, failing)
                  IN  [result |-> rest.result, calls |-> <<call>> \o rest.calls]

\* _cleanup_aws(release, cicd_cfg)
CleanupAws(rel, aws_cfg_names, failing) ==
    CleanupAwsLoop(aws_cfg_names, target_image_name_for_release(rel), 1, failing)

\* one call of _cleanup_aws
CleanupAwsCall ==
    /\ ca_result = CaNone
    /\ \E a \in CaInputs :
          LET r == CleanupAws(a.release, a.aws_cfg_names, a.failing)
          IN  /\ ca_args' = a
              /\ ca_result' = r.result
              /\ ca_calls' = r.calls
    /\ UNCHANGED ca_others

CleanupAwsInit ==
    /\ ca_args = [release |-> [platform |-> "aws", version |-> "27.1.0"],
                  aws_cfg_names |-> <<>>, failing |-> 0]
    /\ ca_result = CaNone
    /\ ca_calls = <<>>

CleanupAwsNext == CleanupAwsCall

-----------------------------------------------------------------------------
(***************************************************************************)
(* .cicd-cli.py : ls_manifests                                             *)
(*                                                                         *)
(* Keys and prefixes are sequences of atoms.                               *)
(***************************************************************************)

\* bound on the number of flavours of the flavour set
MaxFlavours == 2

\* glci.model.canonical_name(platform, modifiers, architecture) of the flavours
CanonicalNames == {<<"aws">>, <<"aws", "_prod">>, <<"gcp">>}

\* glci.model.ReleaseIdentifier.manifest_key_prefix
manifest_key_prefix == <<"meta/singles">>

\* the manifest keys a bucket can hold, in the order a listing returns them
AllKeys ==
    <<manifest_key_prefix \o <<"/", "aws", "-", "27", ".1">>,
      manifest_key_prefix \o <<"/", "aws", "-", "318", ".0">>,
      manifest_key_prefix \o <<"/", "aws", "_prod", "-", "27", ".1">>,
      manifest_key_prefix \o <<"/", "gcp", "-", "27", ".1">>,
      manifest_key_prefix \o <<"/", "gcp", "-", "318", ".0">>>>

\* --version-prefix: not given, empty, or a prefix
VersionPrefixes == {NoneValue, Some(<<>>), Some(<<"27">>)}

LsInputs == [flavours : SeqsUpTo(CanonicalNames, MaxFlavours),
             version_prefix : VersionPrefixes,
             bucket : SUBSET {AllKeys[i] : i \in DOMAIN AllKeys}]

\* lines 503-517: the prefix of a flavour
ManifestPrefix(cname, version_prefix) ==
    LET prefix == manifest_key_prefix \o <<"/">> \o cname
    IN  IF IsTrue(version_prefix) THEN prefix \o <<"-">> \o version_prefix.val ELSE prefix

IsPrefixOf(prefix, key) ==
    Len(prefix) <= Len(key) /\ SubSeq(key, 1, Len(prefix)) = prefix

\* s3_client.list_objects_v2(Bucket=..., Prefix=prefix): the response has a
\* 'Contents' list only when at least one key matches
list_objects_v2(bucket, prefix) ==
    LET keys == SelectSeq(AllKeys, LAMBDA k : k \in bucket /\ IsPrefixOf(prefix, k))
    IN  [has_contents |-> keys # <<>>, Contents |-> keys]

\* line 528: matching_manifests['Contents'], KeyError when the key is missing
Contents(response) ==
    IF response.has_contents
    THEN [raised |-> FALSE, entries |-> response.Contents]
    ELSE [raised |-> TRUE, entries |-> <<>>]

\* lines 488-520: parse the arguments, load the flavours, create the client
LsStart ==
    /\ ls_pc = "idle"
    /\ \E in \in LsInputs : ls_in' = in
    /\ ls_pc' = "loop"
    /\ ls_i' = 1
    /\ UNCHANGED <<ls_out, ls_others>>

\* lines 522-529: one prefix: list the objects, print their keys
LsPrefix ==
    /\ ls_pc = "loop"
    /\ ls_i <= Len(ls_in.flavours)
    /\ LET prefix == ManifestPrefix(ls_in.flavours[ls_i], ls_in.version_prefix)
           c == Contents(list_objects_v2(ls_in.bucket, prefix))
       IN  /\ ls_out' = ls_out \o c.entries
           /\ ls_pc' = IF c.raised THEN "raised" ELSE "loop"
    /\ ls_i' = ls_i + 1
    /\ UNCHANGED <<ls_in, ls_others>>

\* line 522: the prefixes are exhausted and the command returns
LsReturn ==
    /\ ls_pc = "loop"
    /\ ls_i > Len(ls_in.flavours)
    /\ ls_pc' = "returned"
    /\ UNCHANGED <<ls_in, ls_i, ls_out, ls_others>>

LsInit ==
    /\ ls_pc = "idle"
    /\ ls_in = [flavours |-> <<>>, version_prefix |-> NoneValue, bucket |-> {}]
    /\ ls_i = 0
    /\ ls_out = <<>>

LsNext == LsStart \/ LsPrefix \/ LsReturn

-----------------------------------------------------------------------------
Init == PublishInit /\ CredInit /\ ScriptInit /\ FixVersionInit
        /\ DownloadInit /\ MainInit /\ PublishSetInit /\ StepsInit
        /\ CleanInit /\ CleanupAwsInit /\ LsInit

SpecLs == Init /\ [][LsNext]_vars

SpecCleanupAws == Init /\ [][CleanupAwsNext]_vars

SpecClean == Init /\ [][CleanNext]_vars

SpecSteps == Init /\ [][StepsNext]_vars

SpecPublishSet == Init /\ [][PublishSetNext]_vars

SpecMain == Init /\ [][MainNext]_vars

SpecDownload == Init /\ [][DownloadNext]_vars

SpecFixVersion == Init /\ [][FixVersionNext]_vars

SpecScript == Init /\ [][ScriptNext]_vars

SpecCred == Init /\ [][CredNext]_vars

SpecPublish == Init /\ [][PublishNext]_vars

-----------------------------------------------------------------------------
(***************************************************************************)
(* Properties of task_step_script                                          *)
(***************************************************************************)

NonEmpty(text) == text # <<>>
\* the last line of a text
LastLine(text) == LET ls == Split(text, "\n") IN ls[Len(ls)]
\* the blank-separated words of a line
Words(line) == SelectSeq(Split(line, " "), NonEmpty)

\* the script body a call renders: the file's content or the inline body
ScriptBody(a) == IF IsTrue(a.path) THEN FileContent(a.path.val) ELSE a.inline_script.val

\* C7: a call with both a script path and an inline script body raises
\* ValueError without having opened any file, whatever the kind, the callable
\* and the parameter and result lists.
C7_BothSourcesRejected ==
    (ts_result # TsNone
     /\ ~ts_args.path.is_none /\ ts_args.path.val # <<>>
     /\ ~ts_args.inline_script.is_none /\ ts_args.inline_script.val # <<>>) =>
        /\ ts_result = TsRaise("ValueError")
        /\ ts_opened = <<>>

C7_Witness ==
    /\ ts_result = TsRaise("ValueError")
    /\ ts_args.path = Some(ScriptPath)
    /\ ts_args.inline_script = Some(<<"echo hello">>)
    /\ ts_args.script_type = "BOURNE_SHELL"
    /\ ts_args.params # <<>>

\* name='$(params.name)' or name='$(results.name.path)', hyphens of the
\* argument name (not of the placeholder) replaced by underscores
C8_KwArg(name, open, close) ==
    ReplaceHyphens(name) \o <<"=", "'", open>> \o name \o <<close, "'">>

\* C8: for the PYTHON3 kind with a callable name the invocation line is
\* callable(<args>), <args> being the comma-joined list of one keyword
\* argument per parameter followed by one per result, in declaration order;
\* and the search-path preamble is present exactly when a repository-path
\* parameter is given.
C8_Python3Invocation ==
    (ts_result.kind = "return" /\ ts_args.script_type = "PYTHON3"
     /\ IsTrue(ts_args.callable)) =>
        LET ps == ts_args.params
            rs == ts_args.results.val
            items == [i \in DOMAIN ps |-> C8_KwArg(ps[i], "$(params.", ")")]
                     \o [i \in DOMAIN rs |-> C8_KwArg(rs[i], "$(results.", ".path)")]
        IN  /\ LastLine(ts_result.text) =
                  ts_args.callable.val \o <<"(">> \o Join(<<",">>, items) \o <<")">>
            /\ (\E i \in DOMAIN ts_result.text : ts_result.text[i] = "import sys,os;")
                  <=> ~ts_args.repo_path_param.is_none

\* C9: for the BOURNE_SHELL kind with a callable name the invocation line is
\* the callable followed by one quoted "$(params.<name>)" per parameter and
\* then one quoted "$(results.<name>.path)" per result, in declaration order,
\* whether or not the result list is empty.
C9_ShellInvocation ==
    (ts_result.kind = "return" /\ ts_args.script_type = "BOURNE_SHELL"
     /\ IsTrue(ts_args.callable)) =>
        LET ps == ts_args.params
            rs == ts_args.results.val
        IN  Words(LastLine(ts_result.text)) =
              <<ts_args.callable.val>>
              \o [i \in DOMAIN ps |-> <<"\"", "$(params.">> \o ps[i] \o <<")", "\"">>]
              \o [i \in DOMAIN rs |-> <<"\"", "$(results.">> \o rs[i] \o <<".path)", "\"">>]

\* C10: the returned text is the newline-joined sequence of the non-empty
\* items among shebang, preamble, script body and invocation line, in that
\* order; without a callable name there is no invocation line.
C10_OnlyNonEmptyLines ==
    ts_result.kind = "return" =>
        LET items == <<Shebang(ts_args.script_type),
                       Preamble(ts_args.script_type, ts_args.repo_path_param),
                       ScriptBody(ts_args),
                       IF IsTrue(ts_args.callable) THEN CallableStr(ts_args) ELSE <<>> >>
        IN  ts_result.text = Join(<<"\n">>, SelectSeq(items, NonEmpty))

-----------------------------------------------------------------------------
(***************************************************************************)
(* Properties of CredentialManager                                         *)
(***************************************************************************)

\* C5: over any sequence of get_instance calls at most one CredentialManager
\* is constructed, every call returns that one object, and its mode is the
\* one __init__ resolved from the policy (and environment) of the first call,
\* whatever policy later calls request and however the environment changes.
C5_Singleton ==
    /\ constructed <= 1
    /\ Cardinality(gi_returned) <= 1
    /\ gi_count > 0 =>
          /\ constructed = 1
          /\ gi_returned = {instance.id}
          /\ instance.use_cc_config_server =
                UseCcConfigServer(gi_first.policy, gi_first.env)

C5_Witness ==
    /\ gi_count >= 2
    /\ gi_first.policy = [kind |-> "str", value |-> ALWAYS]
    /\ gi_last = [kind |-> "str", value |-> NEVER]
    /\ instance.use_cc_config_server = TRUE
    /\ constructed = 1

\* C6: a manager created with a member P of CCconfigPrecedence uses the
\* secret service if and only if P is ALWAYS, or P is PROBE and both
\* environment variables are set.
C6_PolicyResolution ==
    (gi_count > 0 /\ gi_first.policy.kind = "member") =>
        (instance.use_cc_config_server <=>
            \/ gi_first.policy.value = ALWAYS
            \/ /\ gi_first.policy.value = PROBE
               /\ gi_first.env.SECRETS_SERVER_ENDPOINT # None
               /\ gi_first.env.SECRETS_SERVER_CONCOURSE_CFG_NAME # None)

-----------------------------------------------------------------------------
(***************************************************************************)
(* Properties of publish_image                                             *)
(***************************************************************************)

PublishRoutines == {"_publish_alicloud_image", "_publish_aws_image",
                    "_publish_gcp_image", "_publish_azure_shared_image_gallery",
                    "_publish_azure_image", "_publish_openstack_image",
                    "_publish_oci_image"}
CleanupRoutines == {"_clean_alicloud_image", "_cleanup_aws", "_cleanup_openstack_image"}

\* positions in `events` of the invocations of the routines in fns
CallsOf(fns) == {i \in DOMAIN events : events[i].ev = "call" /\ events[i].what \in fns}
\* positions in `events` of a log line
LogsOf(level, msg) ==
    {i \in DOMAIN events : events[i].ev = "log" /\ events[i].level = level
                                               /\ events[i].what = msg}
PublishFailed == caught # NoExc

\* C1: when the publish routine raised, by the time publish_image raises the
\* cleanup routine has been invoked exactly once on ali, aws and openstack and
\* never on gcp, azure and oci, where the "do not know how to cleanup" warning
\* is logged instead; the invocation or the warning comes after the failed
\* publish invocation, and no cleanup is ever invoked twice.
C1_CleanupCount ==
    /\ Cardinality(CallsOf(CleanupRoutines)) <= 1
    /\ \A i \in CallsOf(CleanupRoutines) \cup LogsOf("warning", "do not know how to cleanup") :
          /\ PublishFailed
          /\ \E j \in CallsOf(PublishRoutines) : j < i
    /\ (pi_pc = "raised" /\ PublishFailed) =>
          IF release.platform \in {"ali", "aws", "openstack"}
          THEN /\ Cardinality(CallsOf(CleanupRoutines)) = 1
               /\ LogsOf("warning", "do not know how to cleanup") = {}
          ELSE /\ release.platform \in {"gcp", "azure", "oci"}
               /\ CallsOf(CleanupRoutines) = {}
               /\ Cardinality(LogsOf("warning", "do not know how to cleanup")) = 1

C1_Witness ==
    /\ pi_pc = "raised"
    /\ PublishFailed
    /\ release.platform = "aws"
    /\ Cardinality(CallsOf({"_cleanup_aws"})) = 1

\* C2: whenever the publish routine raised, publish_image ends by raising that
\* same exception, whatever the cleanup routine did, and never returns.
C2_ReraisesOriginal ==
    (PublishFailed /\ pi_pc \in {"returned", "raised"}) => pi_result = Raised(caught)

\* C3: for a platform outside the six known ones publish_image returns the
\* release it was given, unchanged, after logging the warning, and invokes no
\* publish routine and no cleanup routine.
C3_UnknownPlatformNoop ==
    (pi_pc # "idle"
     /\ release.platform \notin {"ali", "aws", "gcp", "azure", "openstack", "oci"}) =>
        /\ CallsOf(PublishRoutines \cup CleanupRoutines) = {}
        /\ pi_pc \in {"dispatch", "returned"}
        /\ pi_pc = "returned" =>
              /\ pi_result = Returned(release)
              /\ Cardinality(LogsOf("warning", "do not know how to publish")) = 1

C3_Witness ==
    /\ pi_pc = "returned"
    /\ release.platform = "unknownland"
    /\ pi_result.kind = "return"
    /\ pi_result.value = release

\* the dispatch table of the specification
C4_Table(platform, gallery_set) ==
    CASE platform = "ali" -> "_publish_alicloud_image"
      [] platform = "aws" -> "_publish_aws_image"
      [] platform = "gcp" -> "_publish_gcp_image"
      [] platform = "azure" /\ gallery_set -> "_publish_azure_shared_image_gallery"
      [] platform = "azure" /\ ~gallery_set -> "_publish_azure_image"
      [] platform = "openstack" -> "_publish_openstack_image"
      [] platform = "oci" -> "_publish_oci_image"

\* C4: on the six known platforms the publish routine invoked is the one the
\* dispatch table names (for azure the shared-image-gallery publish exactly
\* when shared_gallery_cfg_name is set and non-empty); it is the only publish
\* routine invoked, it is invoked once, and its arguments are (release, cicd_cfg).
C4_DispatchTable ==
    /\ Cardinality(CallsOf(PublishRoutines)) <= 1
    /\ \A i \in CallsOf(PublishRoutines) :
          /\ release.platform \in {"ali", "aws", "gcp", "azure", "openstack", "oci"}
          /\ events[i].what =
                C4_Table(release.platform,
                         cicd_cfg.shared_gallery_cfg_name \notin {None, ""})
          /\ events[i].args = <<release, cicd_cfg>>
    /\ (pi_pc \in {"returned", "raised"}
        /\ release.platform \in {"ali", "aws", "gcp", "azure", "openstack", "oci"}) =>
          Cardinality(CallsOf(PublishRoutines)) = 1

C4_Witness ==
    /\ pi_pc = "returned"
    /\ release.platform = "azure"
    /\ cicd_cfg.shared_gallery_cfg_name = "gallery"
    /\ CallsOf({"_publish_azure_shared_image_gallery"}) # {}

-----------------------------------------------------------------------------
(***************************************************************************)
(* Properties of _fix_version                                              *)
(***************************************************************************)

FvCalled == fv_result # FvNone
\* consisting only of digits and dots
Strict(v) == v # <<>> /\ \A i \in DOMAIN v : v[i] \in {"0", "1", "."}

\* C11: _fix_version returns the version itself when it differs from the
\* working-tree default D (printing the semver warning when it is not strict),
\* D when the version equals D and D is strict, and "<epoch>.0" when the
\* version equals D and D is not strict.
C11_ResolvedVersion ==
    (FvCalled /\ fv_args.version # <<>>) =>
        LET v == fv_args.version
            d == fv_args.workingtree
        IN  /\ fv_result.kind = "return"
            /\ fv_result.value =
                 IF v # d THEN v
                 ELSE IF Strict(d) THEN d
                 ELSE IntToStr(fv_args.epoch) \o <<".", "0">>
            /\ (v # d /\ ~Strict(v)) =>
                 \E i \in DOMAIN fv_out : fv_out[i] = "is not a semver version"

\* C12: _fix_version never fails: whatever the version string and the epoch
\* it returns a resolved version, and an epoch mismatch only prints a warning.
C12_NeverFails ==
    (FvCalled /\ fv_args.version # <<>>) =>
        fv_result.kind = "return" /\ fv_result.exc = None

-----------------------------------------------------------------------------
(***************************************************************************)
(* Properties of _download_release_artifact                                *)
(***************************************************************************)

DlCalled == dl_result # DlNone
DlEventsOf(kind) == {i \in DOMAIN dl_events : dl_events[i].ev = kind}
DlWarnings ==
    {i \in DOMAIN dl_events : dl_events[i] = DlPrint("Warning.: Found more than one file")}
\* the positions of the entries of manifest.paths that carry the requested name
DlMatches == {i \in DOMAIN dl_args.manifest.paths :
                dl_args.manifest.paths[i].name = dl_args.name}

\* C13: for a name other than log/logs, without a matching entry the call
\* returns 1 and creates no session and issues no download; with one it issues
\* exactly one download, of the bucket and key of the first matching entry,
\* and prints the multiple-match warning exactly when several entries match.
C13_NamedArtifact ==
    (DlCalled /\ dl_args.name \notin {"log", "logs"}) =>
        IF DlMatches = {}
        THEN /\ dl_result = DlReturn(1)
             /\ DlEventsOf("session") = {}
             /\ DlEventsOf("download") = {}
        ELSE LET first == CHOOSE i \in DlMatches : \A j \in DlMatches : i <= j
                 entry == dl_args.manifest.paths[first]
             IN  /\ Cardinality(DlEventsOf("download")) = 1
                 /\ \A i \in DlEventsOf("download") :
                       /\ dl_events[i].bucket = entry.s3_bucket_name
                       /\ dl_events[i].key = entry.s3_key
                 /\ (DlWarnings # {}) <=> (Cardinality(DlMatches) > 1)
                 /\ Cardinality(DlWarnings) <= 1

C13_Witness ==
    /\ dl_result = DlReturn(0)
    /\ dl_args.name = "rootfs.tar.xz"
    /\ Cardinality(DlMatches) = 2
    /\ dl_args.manifest.paths[1].s3_key # dl_args.manifest.paths[2].s3_key
    /\ DlWarnings # {}

\* C14: for the name log or logs, a structured logs record is downloaded from
\* its own bucket and key, a bare string is downloaded as key from the build
\* configuration's default bucket, and without a logs value the call returns 1
\* and downloads nothing.
C14_Logs ==
    (DlCalled /\ dl_args.name \in {"log", "logs"}) =>
        LET logs == dl_args.manifest.logs
        IN  CASE logs.type = "S3_ReleaseFile" ->
                    /\ Cardinality(DlEventsOf("download")) = 1
                    /\ \A i \in DlEventsOf("download") :
                          /\ dl_events[i].bucket = logs.s3_bucket_name
                          /\ dl_events[i].key = logs.s3_key
              [] logs.type = "str" /\ logs.s3_key # "" ->
                    /\ Cardinality(DlEventsOf("download")) = 1
                    /\ \A i \in DlEventsOf("download") :
                          /\ dl_events[i].bucket = "build-bucket"
                          /\ dl_events[i].key = logs.s3_key
              [] OTHER ->
                    /\ dl_result = DlReturn(1)
                    /\ DlEventsOf("download") = {}
                    /\ DlEventsOf("session") = {}

C14_Witness ==
    /\ dl_result = DlReturn(0)
    /\ dl_args.name = "logs"
    /\ dl_args.manifest.logs = S3Logs("objects/log-2", "bucket-2")
    /\ \E i \in DlEventsOf("download") : dl_events[i].bucket = "bucket-2"

-----------------------------------------------------------------------------
(***************************************************************************)
(* Properties of main and the retrieve commands                            *)
(***************************************************************************)

MnRan == mn_exit # -1
MnPrinted(msg) == \E i \in DOMAIN mn_events : mn_events[i] = MnEvent("print", msg)
MnLookedUp == \E i \in DOMAIN mn_events : mn_events[i].ev = "lookup"
MnDownloaded == \E i \in DOMAIN mn_events : mn_events[i].ev = "download"
MnDumped == \E i \in DOMAIN mn_events : mn_events[i].ev = "yaml.dump"

\* the not-found conditions
MnNotFound ==
    \/ MnPrinted("ERROR: no such release found")
    \/ MnPrinted("Did not find specified release-set")
    \/ MnPrinted("Error: No object in release manifest with name")
    \/ MnPrinted("Error: No logs attached to release manifest")
    \/ MnPrinted("ERROR: is not defined")

\* the command did what it was asked to: it printed the manifest or the
\* release set, or the storage service delivered the artifact
MnSuccess == MnDumped \/ (MnDownloaded /\ mn_in.download_ok)

\* C15: run through main, the process exits with status 1 on every not-found
\* condition (no matching manifest, no matching release set, a --download of an
\* artifact name the manifest does not hold, a --download of logs on a manifest
\* without a log reference, an unknown command), and with status 0 on success.
C15_ExitStatus ==
    MnRan => /\ MnNotFound => mn_exit = 1
             /\ MnSuccess => mn_exit = 0

MnIsRetrieveSingle ==
    ReplaceHyphens(mn_in.argv0) = <<"retrieve", "_", "single", "_", "manifest">>
MnModifierOptions == {i \in DOMAIN mn_in.argv : mn_in.argv[i].opt = "--modifier"}
MnPlatformOptions == {i \in DOMAIN mn_in.argv : mn_in.argv[i].opt = "--platform"}
MnUnknownItem ==
    \E i \in MnModifierOptions :
       \E k \in DOMAIN StrippedItems(mn_in.argv[i].val) :
          ~IsKnownModifier(StrippedItems(mn_in.argv[i].val)[k])
MnPlatformsValid ==
    /\ MnPlatformOptions # {}
    /\ \A i \in MnPlatformOptions : \E p \in KnownPlatforms : mn_in.argv[i].val = <<p>>
\* the platform and the modifier names the command line gives, the last
\* occurrence of an option winning
MnGivenPlatform ==
    mn_in.argv[CHOOSE i \in MnPlatformOptions : \A j \in MnPlatformOptions : j <= i].val[1]
MnGivenModifiers ==
    LET last == CHOOSE i \in MnModifierOptions : \A j \in MnModifierOptions : j <= i
        items == StrippedItems(mn_in.argv[last].val)
    IN  [k \in DOMAIN items |-> items[k][1]]

\* C20: --modifier of retrieve-single-manifest fails before any manifest
\* lookup as soon as one trimmed comma-separated item is not a known modifier
\* name; a list of known names only is normalised by the rules of the platform
\* --platform gives, in whichever order the two options stand.
C20_ModifierValidation ==
    (MnRan /\ MnIsRetrieveSingle /\ MnModifierOptions # {}) =>
        /\ MnUnknownItem => (~MnLookedUp /\ mn_exit # 0)
        /\ (~MnUnknownItem /\ MnPlatformsValid /\ mn_in.version = <<"1", ".", "0">>) =>
              /\ MnLookedUp
              /\ mn_lookup.platform = MnGivenPlatform
              /\ mn_lookup.modifiers = Normalised(MnGivenPlatform, MnGivenModifiers)

-----------------------------------------------------------------------------
(***************************************************************************)
(* Properties of publish_release_set                                       *)
(***************************************************************************)

\* positions in the log of the records about manifest idx carrying msg
PrsAt(msg, idx) == {k \in DOMAIN prs_log : prs_log[k].msg = msg /\ prs_log[k].idx = idx}
PrsPhaseAt(phase, msg) ==
    {k \in DOMAIN prs_log : prs_log[k].phase = phase /\ prs_log[k].msg = msg}
\* positions of the records the publish-images loop wrote about a manifest
PrsLoopRecords ==
    {k \in DOMAIN prs_log : prs_log[k].phase = "publish-images" /\ prs_log[k].idx > 0}
\* the manifests whose iteration has ended
PrsHandled == IF prs_pc \in {"loop", "returned", "raised"} THEN 1..(prs_i - 1) ELSE {}

\* C16: the sync-images phase (resolution and replication of all manifests)
\* completes before publish-images handles its first manifest; publish-images
\* handles the manifests one at a time in enumeration order, each at most
\* once; after a failed replication it handles none.
C16_PhaseOrder ==
    /\ \A k \in PrsLoopRecords :
          /\ \E r \in PrsAt("replicate_image_blobs", Len(release_manifests)) : r < k
          /\ \E e \in PrsPhaseAt("sync-images", "End of Phase") : e < k
    /\ \A i \in 1..Len(release_manifests) :
          /\ Cardinality(PrsAt("name", i)) <= 1
          /\ \A k \in PrsLoopRecords :
                prs_log[k].idx = i => \E n \in PrsAt("name", i) : n <= k
          /\ \A j \in 1..Len(release_manifests), a \in PrsLoopRecords, b \in PrsLoopRecords :
                (i < j /\ prs_log[a].idx = i /\ prs_log[b].idx = j) => a < b
    /\ \A k \in PrsLoopRecords : prs_log[k].idx \in 1..Len(release_manifests)
    /\ ~prs_in.replicate_ok => PrsLoopRecords = {}

C16_Witness ==
    /\ prs_pc = "returned"
    /\ Len(release_manifests) = MaxManifests
    /\ \A i \in 1..MaxManifests : PrsAt("name", i) # {}

C16_FailedReplicationWitness ==
    /\ prs_pc = "raised"
    /\ ~prs_in.replicate_ok
    /\ Len(release_manifests) > 0

PrsPublished(i) == release_manifests[i].published_image_metadata
PrsNoTarget(i) == TargetCfg(prs_in, release_manifests[i].platform) = None

\* C17 as stated: a manifest that carries published_image_metadata never
\* reaches 'will publish image' and is skipped with an informational log,
\* whatever its platform and --on-absent-cfg; the phase modifies no manifest.
C17_SkippedWithInfoLog ==
    /\ \A i \in PrsHandled :
          PrsPublished(i) =>
             /\ PrsAt("will publish image", i) = {}
             /\ \E k \in PrsAt("already published -> skipping", i) : prs_log[k].level = "info"
    /\ prs_pc # "idle" => release_manifests = prs_in.found

\* C17, amended: a manifest that carries published_image_metadata never
\* reaches 'will publish image'; it is skipped with the informational log,
\* except when its platform has no target cfg under --on-absent-cfg=warn,
\* where it is skipped with the no-cfg warning and no informational log; the
\* phase modifies no manifest.
C17_PublishedSkipped ==
    /\ \A i \in PrsHandled :
          PrsPublished(i) =>
             /\ PrsAt("will publish image", i) = {}
             /\ IF PrsNoTarget(i) /\ prs_in.on_absent_cfg = "warn"
                THEN /\ PrsAt("already published -> skipping", i) = {}
                     /\ \E k \in PrsAt("will NOT publish", i) : prs_log[k].level = "warning"
                ELSE \E k \in PrsAt("already published -> skipping", i) :
                        prs_log[k].level = "info"
    /\ prs_pc # "idle" => release_manifests = prs_in.found

C17_Witness ==
    /\ prs_pc = "returned"
    /\ \E i \in PrsHandled : PrsPublished(i) /\ PrsNoTarget(i) /\ prs_in.on_absent_cfg = "warn"
    /\ \E i \in PrsHandled : PrsPublished(i) /\ ~PrsNoTarget(i)

\* C18: for a manifest whose platform has no target cfg, under warn a warning
\* is logged, the manifest does not reach the publish path and the loop goes
\* on with the next manifest; under fail a fatal message is logged and
\* neither the loop nor the command is aborted: later manifests are handled.
C18_AbsentCfg ==
    /\ prs_pc # "raised" \/ ~prs_in.replicate_ok
    /\ \A i \in PrsHandled :
          PrsNoTarget(i) =>
             /\ prs_in.on_absent_cfg = "warn" =>
                   /\ \E k \in PrsAt("will NOT publish", i) : prs_log[k].level = "warning"
                   /\ PrsAt("will publish image", i) = {}
                   /\ PrsAt("target_cfg", i) = {}
             /\ prs_in.on_absent_cfg = "fail" =>
                   /\ \E k \in PrsAt("aborting", i) : prs_log[k].level = "fatal"
                   /\ PrsAt("target_cfg", i) # {}
    /\ prs_pc = "returned" =>
          \A i \in 1..Len(release_manifests) : PrsAt("name", i) # {}

C18_Witness ==
    /\ prs_pc = "returned"
    /\ prs_in.on_absent_cfg = "fail"
    /\ Len(release_manifests) = MaxManifests
    /\ PrsNoTarget(1)
    /\ PrsAt("name", MaxManifests) # {}

C18_WarnWitness ==
    /\ prs_pc = "returned"
    /\ prs_in.on_absent_cfg = "warn"
    /\ Len(release_manifests) = MaxManifests
    /\ PrsNoTarget(1)
    /\ PrsAt("name", MaxManifests) # {}

-----------------------------------------------------------------------------
(***************************************************************************)
(* Properties of the step builders                                         *)
(***************************************************************************)

\* how many entries of a list are GARDENLINUX_PATH
GardenlinuxPathEntries(list) ==
    Cardinality({i \in DOMAIN list : list[i] = "GARDENLINUX_PATH"})

\* C19: the builders use independent per-call lists: after any sequence of
\* calls made without an explicit env_vars, the step promote_single_step
\* returns carries exactly one GARDENLINUX_PATH entry; a step returned earlier
\* is not changed by a later call; a caller-supplied env_vars list is not
\* modified by the builder.
C19_IndependentLists ==
    \A k \in DOMAIN sb_steps :
       /\ ((\A j \in 1..k : ~sb_calls[j].explicit)
           /\ sb_steps[k].builder = "promote_single_step") =>
             GardenlinuxPathEntries(sb_steps[k].at_return) = 1
       /\ sb_heap[sb_steps[k].env] = sb_steps[k].at_return
       /\ sb_calls[k].explicit => sb_heap[sb_calls[k].env_vars] = sb_calls[k].before

-----------------------------------------------------------------------------
(***************************************************************************)
(* Properties of clean_build_result_repository                             *)
(***************************************************************************)

\* the calls made so far, in order
ClCalls == SelectSeq(cl_events, LAMBDA e : e.ev = "call")
ClRoutines == <<"clean_single_release_manifests", "clean_release_manifest_sets",
                "clean_orphaned_objects">>

\* C21: clean_build_result_repository runs exactly three passes in this order:
\* stale single-release manifests, stale release-manifest sets, orphaned
\* objects; the parsed dry-run flag goes unchanged to all three, the age
\* threshold to the first two; a pass starts only after the previous one
\* returned, so a failing pass prevents the later ones.
C21_ThreePasses ==
    /\ Len(ClCalls) <= 3
    /\ \A k \in DOMAIN ClCalls :
          /\ ClCalls[k].what = ClRoutines[k]
          /\ ClCalls[k].kwargs.dry_run = cl_in.dry_run
          /\ IF k <= 2
             THEN /\ DOMAIN ClCalls[k].kwargs = {"max_age_days", "cicd_cfg", "dry_run"}
                  /\ ClCalls[k].kwargs.max_age_days = cl_in.snapshot_max_age_days
             ELSE DOMAIN ClCalls[k].kwargs = {"cicd_cfg", "dry_run"}
    /\ cl_pc = "returned" => Len(ClCalls) = 3
    /\ cl_pc = "raised" => Len(ClCalls) = cl_in.failing
    /\ (cl_pc # "idle" /\ cl_in.failing # 0) => Len(ClCalls) <= cl_in.failing

C21_Witness ==
    /\ cl_pc = "returned"
    /\ cl_in.dry_run
    /\ cl_in.snapshot_max_age_days = 7
    /\ Len(ClCalls) = 3

C21_FailingPassWitness ==
    /\ cl_pc = "raised"
    /\ cl_in.failing = 2
    /\ Len(ClCalls) = 2

-----------------------------------------------------------------------------
(***************************************************************************)
(* Properties of _cleanup_aws                                              *)
(***************************************************************************)

\* C22: _cleanup_aws, run to completion, invokes unregister_images_by_name
\* exactly once for each account name in cicd_cfg.publish.aws.aws_cfg_names,
\* in list order, each time with the single target image name computed from
\* the release and a session factory bound to that account; with an empty
\* list it deregisters nothing.
C22_EveryAccountOnce ==
    ca_result = CaReturn =>
       /\ Len(ca_calls) = Len(ca_args.aws_cfg_names)
       /\ \A k \in DOMAIN ca_calls :
             /\ ca_calls[k].mk_session.func = "ccc.aws.session"
             /\ ca_calls[k].mk_session.aws_cfg = ca_args.aws_cfg_names[k]
             /\ ca_calls[k].image_name = target_image_name_for_release(ca_args.release)
       /\ ca_args.aws_cfg_names = <<>> => ca_calls = <<>>

C22_Witness ==
    /\ ca_result = CaReturn
    /\ ca_args.aws_cfg_names = <<"account-b", "account-a", "account-b">>
    /\ Len(ca_calls) = 3

C22_EmptyWitness ==
    /\ ca_result = CaReturn
    /\ ca_args.aws_cfg_names = <<>>

-----------------------------------------------------------------------------
(***************************************************************************)
(* Properties of main's dispatch                                           *)
(***************************************************************************)

MnCmdName == ReplaceHyphens(mn_in.argv0)
\* func() was called on something: a function or a class runs, a module or a
\* logger refuses the call with TypeError
MnCalled(kinds) ==
    \E i \in DOMAIN mn_events : mn_events[i].ev = "invoke" /\ mn_events[i].what \in kinds

\* C23: main invokes a function only when the invocation name, hyphens
\* replaced by underscores, names a command handler; for every other name (a
\* helper function, an imported module, a class or a module-level variable
\* included) it prints the error naming the command and exits with status 1
\* without invoking anything.
C23_OnlyHandlers ==
    MnRan =>
       IF MnCmdName \in HandlerNames
       THEN MnCalled({"handler"})
       ELSE /\ MnPrinted("ERROR: is not defined")
            /\ mn_exit = 1
            /\ ~MnCalled({"handler", "helper", "class", "module", "variable"})

-----------------------------------------------------------------------------
(***************************************************************************)
(* Properties of publish_release_set's phase banners                       *)
(***************************************************************************)

PrsPhases == {"sync-images", "publish-images"}

\* C24: publish_release_set brackets each phase with log banners: every phase
\* whose start banner is logged has its end banner logged before the command
\* returns normally, each start banner precedes its own end banner, and the
\* end banner of sync-images precedes the start banner of publish-images.
C24_BracketedPhases ==
    /\ prs_pc = "returned" =>
          \A ph \in PrsPhases :
             PrsPhaseAt(ph, "Starting Phase") # {} => PrsPhaseAt(ph, "End of Phase") # {}
    /\ \A ph \in PrsPhases :
          \A e \in PrsPhaseAt(ph, "End of Phase") :
             \E b \in PrsPhaseAt(ph, "Starting Phase") : b < e
    /\ \A b \in PrsPhaseAt("publish-images", "Starting Phase") :
          \E e \in PrsPhaseAt("sync-images", "End of Phase") : e < b

-----------------------------------------------------------------------------
(***************************************************************************)
(* Properties of the rendered argument list                                *)
(***************************************************************************)

\* the text between the parentheses of the invocation line callable(...)
InvocationArgs(line, callable) == SubSeq(line, Len(callable) + 2, Len(line) - 1)

\* C25: for the PYTHON3 kind the argument list between the parentheses of the
\* invocation line is a well-formed comma-separated list: no leading comma, no
\* trailing comma, no empty item, for every parameter list and result list,
\* an empty parameter list with a non-empty result list included.
C25_WellFormedArgs ==
    (ts_result.kind = "return" /\ ts_args.script_type = "PYTHON3"
     /\ IsTrue(ts_args.callable)) =>
        LET args == InvocationArgs(LastLine(ts_result.text), ts_args.callable.val)
            items == Split(args, ",")
        IN  args # <<>> =>
               /\ args[1] # ","
               /\ args[Len(args)] # ","
               /\ \A i \in DOMAIN items : items[i] # <<>>

-----------------------------------------------------------------------------
(***************************************************************************)
(* Properties of ls_manifests                                              *)
(***************************************************************************)

\* the keys listed under the prefixes of the flavours from position k on
RECURSIVE LsListed(_)
LsListed(k) ==
    IF k > Len(ls_in.flavours) THEN <<>>
    ELSE list_objects_v2(ls_in.bucket,
                         ManifestPrefix(ls_in.flavours[k], ls_in.version_prefix)).Contents
         \o LsListed(k + 1)

\* C26: ls_manifests visits every flavour of the flavour set in order and
\* prints the key of every object listed under the flavour's prefix; a flavour
\* whose prefix matches no stored object contributes no output and does not
\* stop the command: the keys of the remaining flavours are still printed.
C26_EveryFlavourListed ==
    /\ ls_pc # "raised"
    /\ ls_pc = "returned" => ls_out = LsListed(1)

====
